---- MODULE Spec2Model ----
(***************************************************************************)
(* Model of the book-light-case generator: the page's book list handlers,  *)
(* the part factory (mkParts / makeFingerJointedPanel / addEdgePath), the  *)
(* MaxRects packer (pack / packSheet) and the pack-verify-retry loop of    *)
(* generatePlacedParts.                                                    *)
(*                                                                         *)
(* Numbers.  The program computes in IEEE doubles (inches).  The model     *)
(* computes in integers on a grid of 0.5e-6 inch, so 1 inch = 2000000 and  *)
(* the packer's tolerance 1e-6 is 2 grid steps.  Sums, differences, min    *)
(* and max are exact on the grid; the quotients the program takes          *)
(* (length / n, kerf / 2) are exact whenever the operands divide, and are  *)
(* taken to the grid point below otherwise.                                *)
(***************************************************************************)
EXTENDS Integers, Sequences, FiniteSets, TLC

\* ---------------------------------------------------------------- numbers

\* packer.ts: const EPS = 1e-6
EPS == 2
\* isPartInBounds: the literal 1e-6 of L_BOUND .. B_BOUND
BOUND_TOL == 2
\* makeFingerJointedPanel: const RELIEF_R = 0.035
RELIEF_R == 70000
\* enforceHoleClearances: the literals 0.3, 0.25 and 1e-3
EDGE_MIN_FLOOR == 600000
VALLEY_MIN_FLOOR == 500000
PUSH_EXTRA == 2000
\* distances of enforceHoleClearances are taken on a coarser grid of
\* HYPOT_GRID steps, so that their squares stay inside TLC's integers
HYPOT_GRID == 1000

Max(a, b) == IF a >= b THEN a ELSE b
Min(a, b) == IF a <= b THEN a ELSE b
SetMax(S) == CHOOSE m \in S : \A o \in S : o <= m
SetMin(S) == CHOOSE m \in S : \A o \in S : m <= o
Range(s) == {s[i] : i \in DOMAIN s}

RECURSIVE FlattenSeq(_)
FlattenSeq(ss) == IF ss = <<>> THEN <<>> ELSE Head(ss) \o FlattenSeq(Tail(ss))

\* Math.round(a / b) for a >= 0, b > 0
RoundDiv(a, b) == (2 * a + b) \div (2 * b)

RECURSIVE ISqrtFrom(_, _)
ISqrtFrom(n, r) == IF (r + 1) * (r + 1) > n THEN r ELSE ISqrtFrom(n, r + 1)
RECURSIVE ISqrtBin(_, _, _)
ISqrtBin(n, lo, hi) ==
  IF hi - lo <= 8 THEN ISqrtFrom(n, lo)
  ELSE LET mid == (lo + hi) \div 2
       IN IF mid * mid <= n THEN ISqrtBin(n, mid, hi) ELSE ISqrtBin(n, lo, mid)
\* Math.hypot(dx, dy), on the coarser grid
Hypot(dx, dy) ==
  LET a == dx \div HYPOT_GRID
      b == dy \div HYPOT_GRID
  IN HYPOT_GRID * ISqrtBin(a * a + b * b, 0, 46340)

\* ------------------------------------------------------- Edge-Path Builder

Pt(px, py) == [x |-> px, y |-> py]
WithNormal(p, normal) == [x |-> p.x, y |-> p.y, nx |-> normal.x, ny |-> normal.y]
Along(p, axis, d) == IF axis = "x" THEN [p EXCEPT !.x = @ + d] ELSE [p EXCEPT !.y = @ + d]

\* EdgeParams; reserveStrip 0 stands for an absent (or zero) strip, which
\* the program's truthiness test treats alike
Edge(role, reserveStrip) == [teeth |-> TRUE, role |-> role, reserveStrip |-> reserveStrip]

\* the tab count without the parity step: the rounded count, at least 1
TabCountRounded(length, g, job) ==
  Max(1, RoundDiv(length, Max(4 * g.t, job.tab_w_rule)))

\* the tab count n of a toothed edge
TabCount(length, g, job) ==
  LET tab_w_nom == Max(4 * g.t, job.tab_w_rule)
      n0 == RoundDiv(length, tab_w_nom)
      n1 == IF job.symmetric_ends
              THEN (IF n0 % 2 = 0 THEN n0 + 1 ELSE n0)
              ELSE (IF n0 % 2 # 0 THEN n0 + 1 ELSE n0)
  IN IF n1 < 1 THEN 1 ELSE n1

\* i * tab_w, with tab_w = length / n
SegStart(i, length, n) == (i * length) \div n

PadOverlaps(pads, axis, start, end) ==
  \E k \in DOMAIN pads :
    LET padStart == IF axis = "x" THEN pads[k].x ELSE pads[k].y
        padEnd == IF axis = "x" THEN pads[k].x + pads[k].w ELSE pads[k].y + pads[k].h
    IN Max(start, padStart) < Min(end, padEnd)

\* the reservation test when the strip lies at the start of the edge only
IsReservedAtStart(i, length, n, edgeParams, pads, axis) ==
  \/ (edgeParams.reserveStrip # 0 /\ SegStart(i, length, n) < edgeParams.reserveStrip)
  \/ PadOverlaps(pads, axis, SegStart(i, length, n), SegStart(i + 1, length, n))

IsReserved(i, length, n, edgeParams, pads, axis) ==
  LET start == SegStart(i, length, n)
      end == SegStart(i + 1, length, n)
      reserveStrip == edgeParams.reserveStrip
  IN \/ (reserveStrip # 0 /\ (start < reserveStrip \/ length - end < reserveStrip))
     \/ PadOverlaps(pads, axis, start, end)

\* the outcome of segment i when only the reservation may keep it flat
SegmentKindNoRole(i, length, n, edgeParams, pads, axis) ==
  IF IsReserved(i, length, n, edgeParams, pads, axis) THEN "flat" ELSE "notch"

\* the tagged outcome of segment i: "flat" or "notch"
SegmentKind(i, length, n, edgeParams, pads, axis) ==
  LET isTab == (i % 2 = 0)
  IN IF \/ IsReserved(i, length, n, edgeParams, pads, axis)
        \/ (edgeParams.role = "female" /\ isTab)
        \/ (edgeParams.role = "male" /\ ~isTab)
     THEN "flat" ELSE "notch"

\* a point moved by depth along the normal
Offset(p, normal, depth) == Pt(p.x + normal.x * depth, p.y + normal.y * depth)

\* the points p1 .. p5 of segment i
SegmentPts(i, p, length, n, edgeParams, axis, direction, normal, g, job) ==
  LET start == SegStart(i, length, n)
      end == SegStart(i + 1, length, n)
      isTab == (i % 2 = 0)
      clearance == g.kerf \div 2 + job.joint_clear
      off == IF isTab /\ edgeParams.role = "male" THEN -clearance ELSE clearance
      toothDepth == g.t
  IN [p1 |-> Along(p, axis, (start + off) * direction),
      p2 |-> Offset(Along(p, axis, (start + off) * direction), normal, toothDepth),
      p3 |-> Along(p, axis, (end - off) * direction),
      p4 |-> Offset(Along(p, axis, (end - off) * direction), normal, toothDepth),
      p5 |-> Along(p, axis, end * direction)]

\* the contour points one segment pushes, and the valley points it collects
SegmentOut(s, kind, normal) ==
  IF kind = "flat"
  THEN [points |-> <<WithNormal(s.p5, normal)>>, valleys |-> <<>>]
  ELSE [points |-> <<WithNormal(s.p1, normal), WithNormal(s.p2, normal),
                     WithNormal(s.p4, normal), WithNormal(s.p3, normal)>>,
        valleys |-> <<s.p1, s.p3>>]

\* the turns i = 0 .. n-1 of the loop of addEdgePath
Segments(n, currentPos, length, edgeParams, pads, axis, direction, normal, g, job) ==
  [i \in 1..n |->
     SegmentOut(SegmentPts(i - 1, currentPos, length, n, edgeParams, axis, direction,
                           normal, g, job),
                SegmentKind(i - 1, length, n, edgeParams, pads, axis),
                normal)]

EdgeOut(currentPos, normal, segs, endPos) ==
  [points |-> <<WithNormal(currentPos, normal)>>
              \o FlattenSeq([i \in DOMAIN segs |-> segs[i].points]),
   valleys |-> FlattenSeq([i \in DOMAIN segs |-> segs[i].valleys]),
   endPos |-> endPos]

\* addEdgePath: the points appended to the contour, the valley points
\* appended to the collector, and the returned end position
addEdgePath(currentPos, length, edgeParams, pads, axis, direction, normal, g, job) ==
  IF ~edgeParams.teeth
  THEN EdgeOut(currentPos, normal, <<>>, Along(currentPos, axis, length * direction))
  ELSE EdgeOut(currentPos, normal,
               Segments(TabCount(length, g, job), currentPos, length, edgeParams, pads,
                        axis, direction, normal, g, job),
               Along(currentPos, axis, length * direction))

\* ------------------------------------------------ Panel Geometry Generator

\* the contour and the valley collector after the four edges
Traced(e1, e2, e3, e4) ==
  [contour |-> e1.points \o e2.points \o e3.points \o e4.points,
   valleys |-> e1.valleys \o e2.valleys \o e3.valleys \o e4.valleys]

\* the four calls of addEdgePath, each starting where the one before ended
TraceLeft(e1, e2, e3, outerH, edges, features, g, job) ==
  Traced(e1, e2, e3,
         addEdgePath(e3.endPos, outerH, edges.left, features.pads, "y", -1, Pt(-1, 0), g, job))

TraceBottom(e1, e2, outerW, outerH, edges, features, g, job) ==
  TraceLeft(e1, e2,
            addEdgePath(e2.endPos, outerW, edges.bottom, features.pads, "x", -1, Pt(0, 1),
                        g, job),
            outerH, edges, features, g, job)

TraceRight(e1, outerW, outerH, edges, features, g, job) ==
  TraceBottom(e1,
              addEdgePath(e1.endPos, outerH, edges.right, features.pads, "y", 1, Pt(1, 0),
                          g, job),
              outerW, outerH, edges, features, g, job)

TraceTop(origin, outerW, outerH, edges, features, g, job) ==
  TraceRight(addEdgePath(origin, outerW, edges.top, features.pads, "x", 1, Pt(0, -1), g, job),
             outerW, outerH, edges, features, g, job)

\* every contour point moved by k along its normal
KerfCompensated(contour, k) ==
  [i \in DOMAIN contour |->
     Pt(contour[i].x + k * contour[i].nx, contour[i].y + k * contour[i].ny)]

\* the panel record without the shift of the contour to the bounding box
NotNormalized(kerfed, valleyCollector, minX, minY, maxX, maxY) ==
  [holes |-> [i \in DOMAIN valleyCollector |->
                [cx |-> valleyCollector[i].x - minX, cy |-> valleyCollector[i].y - minY,
                 r |-> RELIEF_R]],
   width |-> maxX - minX,
   height |-> maxY - minY,
   valleyPts |-> [i \in DOMAIN valleyCollector |->
                    Pt(valleyCollector[i].x - minX, valleyCollector[i].y - minY)],
   contourPoints |-> kerfed]

\* the normalisation to the bounding box, and the relief holes
Normalized(kerfed, valleyCollector, minX, minY, maxX, maxY) ==
  [holes |-> [i \in DOMAIN valleyCollector |->
                [cx |-> valleyCollector[i].x - minX, cy |-> valleyCollector[i].y - minY,
                 r |-> RELIEF_R]],
   width |-> maxX - minX,
   height |-> maxY - minY,
   valleyPts |-> [i \in DOMAIN valleyCollector |->
                    Pt(valleyCollector[i].x - minX, valleyCollector[i].y - minY)],
   contourPoints |-> [i \in DOMAIN kerfed |-> Pt(kerfed[i].x - minX, kerfed[i].y - minY)]]

BoundingBoxed(kerfed, valleyCollector) ==
  Normalized(kerfed, valleyCollector,
             SetMin({kerfed[i].x : i \in DOMAIN kerfed}),
             SetMin({kerfed[i].y : i \in DOMAIN kerfed}),
             SetMax({kerfed[i].x : i \in DOMAIN kerfed}),
             SetMax({kerfed[i].y : i \in DOMAIN kerfed}))

PanelOf(traced, k) == BoundingBoxed(KerfCompensated(traced.contour, k), traced.valleys)

makeFingerJointedPanel(outerW, outerH, edges, features, g, job) ==
  PanelOf(TraceTop(Pt(IF edges.left.teeth /\ edges.left.role = "male" THEN g.t ELSE 0,
                      IF edges.top.teeth /\ edges.top.role = "male" THEN g.t ELSE 0),
                   outerW, outerH, edges, features, g, job),
          g.kerf \div 2)

\* --------------------------------------------------- Hole Clearance Enforcer

\* the valley nearest to (cx, cy): the first one at the least distance
RECURSIVE NearestValley(_, _, _, _, _)
NearestValley(valleys, i, cx, cy, best) ==
  IF i > Len(valleys) THEN best
  ELSE IF best.idx = 0 \/ Hypot(cx - valleys[i].x, cy - valleys[i].y) < best.d
       THEN NearestValley(valleys, i + 1, cx, cy,
                          [idx |-> i, d |-> Hypot(cx - valleys[i].x, cy - valleys[i].y)])
       ELSE NearestValley(valleys, i + 1, cx, cy, best)

\* the push away from the nearest panel edge
PushFromEdge(hole, panelW, panelH, edgeMin) ==
  LET dxEdge == Min(hole.cx, panelW - hole.cx)
      dyEdge == Min(hole.cy, panelH - hole.cy)
      edgeDist == Min(dxEdge, dyEdge) - hole.r
      push == edgeMin - edgeDist + PUSH_EXTRA
  IN IF ~(edgeDist < edgeMin) THEN hole
     ELSE IF dxEdge < dyEdge
          THEN [hole EXCEPT !.cx = IF 2 * hole.cx < panelW THEN @ + push ELSE @ - push]
          ELSE [hole EXCEPT !.cy = IF 2 * hole.cy < panelH THEN @ + push ELSE @ - push]

\* the push away from the nearest valley point
PushFromValley(hole, valleys, near, valleyMin) ==
  LET push == valleyMin - (near.d - hole.r) + PUSH_EXTRA
      d == Max(1, near.d \div HYPOT_GRID)
  IN IF ~(near.idx # 0 /\ near.d - hole.r < valleyMin) THEN hole
     ELSE [hole EXCEPT
             !.cx = @ + HYPOT_GRID *
                      ((((hole.cx - valleys[near.idx].x) \div HYPOT_GRID)
                        * (push \div HYPOT_GRID)) \div d),
             !.cy = @ + HYPOT_GRID *
                      ((((hole.cy - valleys[near.idx].y) \div HYPOT_GRID)
                        * (push \div HYPOT_GRID)) \div d)]

PushFromNearestValley(hole, valleys, valleyMin) ==
  PushFromValley(hole, valleys,
                 NearestValley(valleys, 1, hole.cx, hole.cy, [idx |-> 0, d |-> 0]),
                 valleyMin)

\* the final clamp into the panel
ClampHole(hole, panelW, panelH) ==
  [cx |-> Max(hole.r, Min(panelW - hole.r, hole.cx)),
   cy |-> Max(hole.r, Min(panelH - hole.r, hole.cy)),
   r |-> hole.r]

enforceHoleClearances(hole, panelW, panelH, valleys, t) ==
  ClampHole(PushFromNearestValley(PushFromEdge(hole, panelW, panelH,
                                               Max(3 * t, EDGE_MIN_FLOOR)),
                                  valleys, Max(2 * t, VALLEY_MIN_FLOOR)),
            panelW, panelH)

\* ------------------------------------------------------------ Part Factory

PartTypes == <<"BASE", "LID", "FRONT", "BACK", "LEFT", "RIGHT">>

deriveInner(job) ==
  [W_int |-> job.W_ext - 2 * job.clear_side,
   D_int |-> job.D_ext - 2 * job.clear_depth,
   H_wall |-> job.h_visible + job.raise_gap]

NoFeatures == [pads |-> <<>>]

\* the magnet holes without the second pair of mag_count = 4
FirstPairOnly(job, g) ==
  IF job.mag_count >= 2
  THEN <<[cx |-> job.mag_edge_offset, cy |-> job.mag_edge_offset,
          r |-> (job.mag_diam + job.mag_clear + g.kerf) \div 2],
         [cx |-> deriveInner(job).W_int - job.mag_edge_offset, cy |-> job.mag_edge_offset,
          r |-> (job.mag_diam + job.mag_clear + g.kerf) \div 2]>>
  ELSE <<>>

\* the magnet holes of the base, before the clearance enforcer
NominalMagnetHoles(job, g) ==
  LET d == deriveInner(job)
      rNom == (job.mag_diam + job.mag_clear + g.kerf) \div 2
      o == job.mag_edge_offset
  IN (IF job.mag_count >= 2
      THEN <<[cx |-> o, cy |-> o, r |-> rNom], [cx |-> d.W_int - o, cy |-> o, r |-> rNom]>>
      ELSE <<>>)
     \o
     (IF job.mag_count = 4
      THEN <<[cx |-> o, cy |-> d.D_int - o, r |-> rNom],
             [cx |-> d.W_int - o, cy |-> d.D_int - o, r |-> rNom]>>
      ELSE <<>>)

\* the magnet holes of the base, each through the clearance enforcer
MagnetHoles(nominal, baseRaw, t) ==
  [i \in DOMAIN nominal |->
     enforceHoleClearances(nominal[i], baseRaw.width, baseRaw.height, baseRaw.valleyPts, t)]

\* partify: uid is `${job.id}:${ptype}:${partCounter++}`
partify(job, ptype, partCounter, geom, magnetHoles) ==
  [uid |-> <<job.id, ptype, partCounter>>,
   jobId |-> job.id,
   partType |-> ptype,
   w |-> geom.width,
   h |-> geom.height,
   holes |-> geom.holes \o magnetHoles,
   contourPoints |-> geom.contourPoints]

BasePart(job, baseRaw, g) ==
  partify(job, "BASE", 0, baseRaw, MagnetHoles(NominalMagnetHoles(job, g), baseRaw, g.t))

mkParts(job, g) ==
  LET d == deriveInner(job)
      female == Edge("female", 0)
      male == Edge("male", 0)
  IN <<BasePart(job,
         makeFingerJointedPanel(d.W_int, d.D_int,
           [top |-> female, right |-> female, bottom |-> female, left |-> female],
           NoFeatures, g, job), g),
       partify(job, "LID", 1,
         makeFingerJointedPanel(d.W_int, d.D_int,
           [top |-> female, right |-> Edge("female", job.tape_reserved_strip),
            bottom |-> female, left |-> female],
           NoFeatures, g, job), <<>>),
       partify(job, "FRONT", 2,
         makeFingerJointedPanel(d.W_int, d.H_wall,
           [top |-> male, right |-> male, bottom |-> male, left |-> male],
           NoFeatures, g, job), <<>>),
       partify(job, "BACK", 3,
         makeFingerJointedPanel(d.W_int, d.H_wall,
           [top |-> male, right |-> Edge("male", job.tape_reserved_strip),
            bottom |-> male, left |-> male],
           NoFeatures, g, job), <<>>),
       partify(job, "LEFT", 4,
         makeFingerJointedPanel(d.D_int, d.H_wall,
           [top |-> male, right |-> female, bottom |-> male, left |-> female],
           NoFeatures, g, job), <<>>),
       partify(job, "RIGHT", 5,
         makeFingerJointedPanel(d.D_int, d.H_wall,
           [top |-> male, right |-> female, bottom |-> male, left |-> female],
           NoFeatures, g, job), <<>>)>>

\* -------------------------------------------------- Bin Packer (MaxRects)

Rect(rx, ry, rw, rh) == [x |-> rx, y |-> ry, w |-> rw, h |-> rh]

overlap(a, b) ==
  ~(\/ a.x + a.w <= b.x + EPS
    \/ b.x + b.w <= a.x + EPS
    \/ a.y + a.h <= b.y + EPS
    \/ b.y + b.h <= a.y + EPS)

contains(a, b) ==
  /\ a.x <= b.x + EPS
  /\ a.y <= b.y + EPS
  /\ a.x + a.w >= b.x + b.w - EPS
  /\ a.y + a.h >= b.y + b.h - EPS

pruneFreeRects(free) ==
  LET Kept(i) == ~\E j \in DOMAIN free : i # j /\ contains(free[j], free[i])
      kept == SelectSeq([i \in DOMAIN free |-> i], Kept)
  IN [k \in DOMAIN kept |-> free[kept[k]]]

\* the residual rectangles one free rectangle leaves around the used block
SplitOne(fr, used) ==
  LET ix == Max(fr.x, used.x)
      iy == Max(fr.y, used.y)
      ix2 == Min(fr.x + fr.w, used.x + used.w)
      iy2 == Min(fr.y + fr.h, used.y + used.h)
  IN IF ~overlap(fr, used) THEN <<fr>>
     ELSE IF ix2 - ix <= EPS \/ iy2 - iy <= EPS THEN <<fr>>
     ELSE (IF iy - fr.y > EPS THEN <<Rect(fr.x, fr.y, fr.w, iy - fr.y)>> ELSE <<>>)
          \o (IF fr.y + fr.h - iy2 > EPS
              THEN <<Rect(fr.x, iy2, fr.w, fr.y + fr.h - iy2)>> ELSE <<>>)
          \o (IF ix - fr.x > EPS THEN <<Rect(fr.x, iy, ix - fr.x, iy2 - iy)>> ELSE <<>>)
          \o (IF fr.x + fr.w - ix2 > EPS
              THEN <<Rect(ix2, iy, fr.x + fr.w - ix2, iy2 - iy)>> ELSE <<>>)

\* the clipping of a residual rectangle to the sheet
ClipToSheet(r, sheetW, sheetH) ==
  Rect(Max(0, r.x), Max(0, r.y),
       Max(0, Min(sheetW, r.x + r.w) - Max(0, r.x)),
       Max(0, Min(sheetH, r.y + r.h) - Max(0, r.y)))

splitFreeRects(free, used, sheetW, sheetH) ==
  LET out == FlattenSeq([i \in DOMAIN free |-> SplitOne(free[i], used)])
      clipped == [i \in DOMAIN out |-> ClipToSheet(out[i], sheetW, sheetH)]
      NotDegenerate(r) == r.w > EPS /\ r.h > EPS
  IN SelectSeq(clipped, NotDegenerate)

NoCandidate == [rIndex |-> -1]

\* tryFit without the tolerance EPS
tryFitExact(fr, i, pw, ph, rot, gap) ==
  IF pw + gap <= fr.w /\ ph + gap <= fr.h
  THEN <<[score |-> Min(fr.w - (pw + gap), fr.h - (ph + gap)), rot |-> rot,
          x |-> fr.x, y |-> fr.y, w |-> pw, h |-> ph, rIndex |-> i]>>
  ELSE <<>>

\* tryFit: the candidate of one free rectangle and one orientation, if it fits
tryFit(fr, i, pw, ph, rot, gap) ==
  LET fitW == pw + gap
      fitH == ph + gap
  IN IF fitW <= fr.w + EPS /\ fitH <= fr.h + EPS
     THEN <<[score |-> Min(fr.w - fitW, fr.h - fitH), rot |-> rot,
             x |-> fr.x, y |-> fr.y, w |-> pw, h |-> ph, rIndex |-> i]>>
     ELSE <<>>

\* the candidates when the turned part is tried whatever allowRotation says
CandidatesBothWays(part, free, allowRotation, gap) ==
  FlattenSeq([i \in DOMAIN free |->
    tryFit(free[i], i, part.w, part.h, FALSE, gap)
    \o tryFit(free[i], i, part.h, part.w, TRUE, gap)])

\* the candidates in evaluation order
Candidates(part, free, allowRotation, gap) ==
  FlattenSeq([i \in DOMAIN free |->
    tryFit(free[i], i, part.w, part.h, FALSE, gap)
    \o (IF allowRotation THEN tryFit(free[i], i, part.h, part.w, TRUE, gap) ELSE <<>>)])

\* the choice with the comparison turned round: c.score > best.score
RECURSIVE KeepWorst(_, _)
KeepWorst(cands, best) ==
  IF cands = <<>> THEN best
  ELSE IF best = NoCandidate \/ Head(cands).score > best.score
       THEN KeepWorst(Tail(cands), Head(cands))
       ELSE KeepWorst(Tail(cands), best)

\* the choice that lets a later candidate of equal score win:
\* c.score <= best.score
RECURSIVE KeepLastBest(_, _)
KeepLastBest(cands, best) ==
  IF cands = <<>> THEN best
  ELSE IF best = NoCandidate \/ Head(cands).score <= best.score
       THEN KeepLastBest(Tail(cands), Head(cands))
       ELSE KeepLastBest(Tail(cands), best)

\* if (!best || c.score < best.score) best = c
RECURSIVE KeepBest(_, _)
KeepBest(cands, best) ==
  IF cands = <<>> THEN best
  ELSE IF best = NoCandidate \/ Head(cands).score < best.score
       THEN KeepBest(Tail(cands), Head(cands))
       ELSE KeepBest(Tail(cands), best)

chooseMaxRectsPosition(part, free, allowRotation, gap) ==
  KeepBest(Candidates(part, free, allowRotation, gap), NoCandidate)

\* the sort key of packSheet, and its (stable) descending sort of part
\* indices; parts is the list the indices point into
SortKey(part) == Max(part.h, part.w)

\* the place after a sort that turns round the parts of equal key
SortedPlaceTiesReversed(i, idxs, parts) ==
  1 + Cardinality({j \in DOMAIN idxs :
        \/ SortKey(parts[idxs[j]]) > SortKey(parts[idxs[i]])
        \/ (SortKey(parts[idxs[j]]) = SortKey(parts[idxs[i]]) /\ j > i)})

\* the place of idxs[i] after the sort: behind every part with a greater
\* key, and behind the parts with an equal key that stand before it
SortedPlace(i, idxs, parts) ==
  1 + Cardinality({j \in DOMAIN idxs :
        \/ SortKey(parts[idxs[j]]) > SortKey(parts[idxs[i]])
        \/ (SortKey(parts[idxs[j]]) = SortKey(parts[idxs[i]]) /\ j < i)})

SortParts(idxs, parts) ==
  [k \in DOMAIN idxs |-> idxs[CHOOSE i \in DOMAIN idxs : SortedPlace(i, idxs, parts) = k]]

\* the blocked-out rectangle of a placement: the part and its gap
blockRect(part, cand, gap) ==
  Rect(cand.x, cand.y,
       (IF cand.rot THEN part.h ELSE part.w) + gap,
       (IF cand.rot THEN part.w ELSE part.h) + gap)

\* ------------------------------------------------------ Placement Verifier

\* the map into sheet space that shifts a turned part by its width
ToSheetByWidth(p, part, localPoint) ==
  IF p.rotated
  THEN Pt(-localPoint.y + p.x + part.w, localPoint.x + p.y)
  ELSE Pt(localPoint.x + p.x, localPoint.y + p.y)

\* transformAndUpdateBounds: a local point in sheet space
ToSheet(p, part, localPoint) ==
  IF p.rotated
  THEN Pt(-localPoint.y + p.x + part.h, localPoint.x + p.y)
  ELSE Pt(localPoint.x + p.x, localPoint.y + p.y)

\* the local points the verifier visits: every contour point and the four
\* bounding corners of every hole
VerifiedPoints(part) ==
  Range(part.contourPoints)
  \cup UNION {{Pt(part.holes[i].cx - part.holes[i].r, part.holes[i].cy - part.holes[i].r),
               Pt(part.holes[i].cx + part.holes[i].r, part.holes[i].cy - part.holes[i].r),
               Pt(part.holes[i].cx + part.holes[i].r, part.holes[i].cy + part.holes[i].r),
               Pt(part.holes[i].cx - part.holes[i].r, part.holes[i].cy + part.holes[i].r)}
              : i \in DOMAIN part.holes}

\* isPartInBounds; p is the placement and part the Part it copies
isPartInBounds(p, part, g) ==
  LET L_BOUND == g.margin - BOUND_TOL
      T_BOUND == g.margin - BOUND_TOL
      R_BOUND == g.sheet_w - g.margin + BOUND_TOL
      B_BOUND == g.sheet_h - g.margin + BOUND_TOL
      sheetPts == {ToSheet(p, part, q) : q \in VerifiedPoints(part)}
  IN \A q \in sheetPts :
       q.x >= L_BOUND /\ q.x <= R_BOUND /\ q.y >= T_BOUND /\ q.y <= B_BOUND

\* ------------------------------------------------------------ SVG Renderer

\* assertInBounds: TRUE when it does not throw 'Part out of bounds'; p is
\* the placement and part the Part it copies
assertInBounds(p, part, g) ==
  LET w == IF p.rotated THEN part.h ELSE part.w
      h == IF p.rotated THEN part.w ELSE part.h
      r == p.x + w
      b == p.y + h
      L == g.margin - BOUND_TOL
      T == g.margin - BOUND_TOL
      R == g.sheet_w - g.margin + BOUND_TOL
      B == g.sheet_h - g.margin + BOUND_TOL
  IN ~(p.x < L \/ p.y < T \/ r > R \/ b > B)

\* the length of the sparse array sheets: one more than the largest index
\* that was assigned
SheetsLength(placedParts) ==
  IF placedParts = <<>> THEN 0
  ELSE SetMax({placedParts[i].sheetIndex : i \in DOMAIN placedParts} \cup {-1}) + 1

\* renderSheetsAsSvgs: whether it throws, and otherwise the placements of
\* every slot of sheets in the order they were pushed; slot s of the
\* program is element s + 1, and a slot that was never assigned is <<>>
renderSheetsAsSvgs(placedParts, all, g) ==
  IF \E i \in DOMAIN placedParts : ~assertInBounds(placedParts[i], all[placedParts[i].part], g)
  THEN [thrown |-> TRUE, sheets |-> <<>>]
  ELSE [thrown |-> FALSE,
        sheets |-> [s \in 1..SheetsLength(placedParts) |->
                      LET OnSheet(pp) == pp.sheetIndex = s - 1
                      IN SelectSeq(placedParts, OnSheet)]]

\* ------------------------------------------------------------- Page state

\* the bounds of the model
MaxBooks == 2
MaxClock == 2

\* defaultGlobals of the page
defaultGlobals ==
  [sheet_w |-> 39000000, sheet_h |-> 23000000, margin |-> 500000, part_gap |-> 160000,
   allow_rotation |-> TRUE, kerf |-> 16000, t |-> 236000]

\* defaultBook of the page (the fields the generator reads)
defaultBook ==
  [W_ext |-> 18000000, D_ext |-> 3000000, clear_side |-> 120000, clear_depth |-> 120000,
   h_visible |-> 600000, raise_gap |-> 300000, tab_w_rule |-> 1000000, joint_clear |-> 8000,
   symmetric_ends |-> TRUE, tape_reserved_strip |-> 700000, mag_count |-> 2,
   mag_diam |-> 314000, mag_clear |-> 16000, mag_edge_offset |-> 1000000]

\* the values the forms are given in the model: a small cubic case whose
\* width is 2.1200005 in, and the same case 2.12 in wide with a tape strip
BookA ==
  [defaultBook EXCEPT !.W_ext = 4240001, !.D_ext = 4240000, !.h_visible = 3700000,
                      !.tab_w_rule = 2000000, !.tape_reserved_strip = 0, !.mag_count = 0]
BookB ==
  [defaultBook EXCEPT !.W_ext = 4240000, !.D_ext = 4240000, !.h_visible = 3700000,
                      !.tab_w_rule = 2000000]
BookInputs == {defaultBook, BookA, BookB}

\* sheet settings typed into the globals form: rotation switched off, a
\* 9.496 in square sheet, a 4.88 x 9.496 in sheet with no gap, a
\* 2.3 x 9.496 in sheet with no margin
GlobalsInputs ==
  {defaultGlobals,
   [defaultGlobals EXCEPT !.allow_rotation = FALSE],
   [defaultGlobals EXCEPT !.sheet_w = 18992000, !.sheet_h = 18992000],
   [defaultGlobals EXCEPT !.sheet_w = 9760000, !.sheet_h = 18992000, !.part_gap = 0],
   [defaultGlobals EXCEPT !.sheet_w = 4600000, !.sheet_h = 18992000, !.margin = 0]}

VARIABLES
  now,                \* Date.now()
  books,              \* the page's books state
  globals,            \* the page's globals state
  pc,                 \* where the generation call stands
  allParts,           \* generatePlacedParts: allParts
  partsToPack,        \* generatePlacedParts: partsToPack (indices into allParts)
  finalPlacedParts,   \* generatePlacedParts: finalPlacedParts
  sheetIndexOffset,   \* generatePlacedParts: sheetIndexOffset
  remaining,          \* pack: remaining (indices into allParts)
  placedParts,        \* pack: placedParts
  sheetIndex,         \* pack: sheetIndex
  parts,              \* packSheet: the sorted parts still to visit
  free,               \* packSheet: free
  placed,             \* packSheet: placed
  sheetRemaining,     \* packSheet: remaining
  result,             \* the returned placements
  failedPart          \* the part named by the thrown error (index), or 0

vars == <<now, books, globals, pc, allParts, partsToPack, finalPlacedParts,
          sheetIndexOffset, remaining, placedParts, sheetIndex, parts, free, placed,
          sheetRemaining, result, failedPart>>

pageVars == <<now, books, globals>>
genVars == <<allParts, partsToPack, finalPlacedParts, sheetIndexOffset>>
packVars == <<remaining, placedParts, sheetIndex>>
sheetVars == <<parts, free, placed, sheetRemaining>>

Quiescent == pc \in {"idle", "done", "fatal"}

\* no generation call is active: its locals do not exist
NoCall ==
  /\ pc' = "idle"
  /\ allParts' = <<>> /\ partsToPack' = <<>> /\ finalPlacedParts' = <<>>
  /\ sheetIndexOffset' = 0
  /\ remaining' = <<>> /\ placedParts' = <<>> /\ sheetIndex' = 0
  /\ parts' = <<>> /\ free' = <<>> /\ placed' = <<>> /\ sheetRemaining' = <<>>
  /\ result' = <<>> /\ failedPart' = 0

Init ==
  /\ now = 1
  /\ books = <<>>
  /\ globals = defaultGlobals
  /\ pc = "idle"
  /\ allParts = <<>> /\ partsToPack = <<>> /\ finalPlacedParts = <<>>
  /\ sheetIndexOffset = 0
  /\ remaining = <<>> /\ placedParts = <<>> /\ sheetIndex = 0
  /\ parts = <<>> /\ free = <<>> /\ placed = <<>> /\ sheetRemaining = <<>>
  /\ result = <<>> /\ failedPart = 0

\* the clock advances
Tick ==
  /\ Quiescent /\ now < MaxClock
  /\ now' = now + 1
  /\ UNCHANGED <<books, globals>>
  /\ NoCall

\* handleAddBook: id is `book-${Date.now()}`
BookWithId(fields, id) == [f \in DOMAIN fields \cup {"id"} |-> IF f = "id" THEN id ELSE fields[f]]

handleAddBook ==
  /\ Quiescent /\ Len(books) < MaxBooks
  /\ books' = Append(books, BookWithId(defaultBook, now))
  /\ UNCHANGED <<now, globals>>
  /\ NoCall

\* handleUpdateBook(updatedBook), called by the form of one of the books
handleUpdateBook(updatedBook) ==
  /\ Quiescent
  /\ \E i \in DOMAIN books : books[i].id = updatedBook.id
  /\ books' = [i \in DOMAIN books |->
                 IF books[i].id = updatedBook.id THEN updatedBook ELSE books[i]]
  /\ UNCHANGED <<now, globals>>
  /\ NoCall

\* handleRemoveBook(bookId)
handleRemoveBook(bookId) ==
  /\ Quiescent
  /\ \E i \in DOMAIN books : books[i].id = bookId
  /\ LET Keep(b) == b.id # bookId IN books' = SelectSeq(books, Keep)
  /\ UNCHANGED <<now, globals>>
  /\ NoCall

\* GlobalsForm's onUpdate: setGlobals(newGlobals)
setGlobals(newGlobals) ==
  /\ Quiescent
  /\ globals' = newGlobals
  /\ UNCHANGED <<now, books>>
  /\ NoCall

\* ------------------------------------------------------------ Orchestrator

getBookColorPalette ==
  <<"#FF0000", "#E60000", "#CC0000", "#B30000", "#990000", "#800000", "#660000", "#4D0000">>

\* jobs.flatMap((job) => mkParts(job, globals))
AllPartsOf(jobs, g) == FlattenSeq([i \in DOMAIN jobs |-> mkParts(jobs[i], g)])

\* allPartsByUid.get(uid): a Map built from [uid, part] entries keeps, for
\* a uid given twice, the last entry
allPartsByUid(all, uid) == SetMax({i \in DOMAIN all : all[i].uid = uid})

\* a PlacedPart: the fields of its Part are those of all[part]
PlacedPart(idx, sheet, px, py, rot) ==
  [part |-> idx, sheetIndex |-> sheet, x |-> px, y |-> py, rotated |-> rot,
   bookColor |-> "", bookIndex |-> -1]

\* the overflow test without its call of isPartInBounds
IsOverflowSentinelOnly(placedPart, all, g) == placedPart.sheetIndex = -1

\* the overflow test without its test of the sentinel
IsOverflowBoundsOnly(placedPart, all, g) ==
  ~isPartInBounds(placedPart, all[placedPart.part], g)

\* the overflow test of the verification loop
IsOverflow(placedPart, all, g) ==
  placedPart.sheetIndex = -1 \/ ~isPartInBounds(placedPart, all[placedPart.part], g)

\* a Set of uids, in insertion order
RECURSIVE UidSet(_, _)
UidSet(uids, seen) ==
  IF uids = <<>> THEN seen
  ELSE IF \E i \in DOMAIN seen : seen[i] = Head(uids)
       THEN UidSet(Tail(uids), seen)
       ELSE UidSet(Tail(uids), Append(seen, Head(uids)))

OverflowUids(packedAttempt, all, g) ==
  LET Over(pp) == IsOverflow(pp, all, g)
      over == SelectSeq(packedAttempt, Over)
  IN UidSet([i \in DOMAIN over |-> all[over[i].part].uid], <<>>)

ValidlyPlaced(packedAttempt, all, g) ==
  LET Valid(pp) == ~IsOverflow(pp, all, g) IN SelectSeq(packedAttempt, Valid)

\* the offset of a retry that starts again at the first sheet
RestartAtFirstSheet(final) == 0

\* (finalPlacedParts.length > 0 ? Math.max(...sheetIndex) : -1) + 1
NextSheetIndexOffset(final) ==
  (IF Len(final) > 0 THEN SetMax({final[i].sheetIndex : i \in DOMAIN final}) ELSE -1) + 1

\* jobs.findIndex((j) => j.id === jobId), counted from 0
FindBookIndex(jobs, jobId) ==
  IF \E i \in DOMAIN jobs : jobs[i].id = jobId
  THEN SetMin({i \in DOMAIN jobs : jobs[i].id = jobId}) - 1
  ELSE -1

\* the colouring of the final placements
Coloured(final, all, jobs) ==
  [i \in DOMAIN final |->
     LET bookIndex == FindBookIndex(jobs, all[final[i].part].jobId)
     IN [final[i] EXCEPT
           !.bookColor = getBookColorPalette[(bookIndex % Len(getBookColorPalette)) + 1],
           !.bookIndex = bookIndex]]

\* handleGenerate: with no books it only shows a toast; otherwise the call
\* of generatePlacedParts(books, globals), up to the first test of its loop
handleGenerate ==
  /\ Quiescent
  /\ IF Len(books) = 0
     THEN NoCall
     ELSE /\ allParts' = AllPartsOf(books, globals)
          /\ partsToPack' = [i \in 1..(6 * Len(books)) |-> i]
          /\ finalPlacedParts' = <<>>
          /\ sheetIndexOffset' = 0
          /\ remaining' = <<>> /\ placedParts' = <<>> /\ sheetIndex' = 0
          /\ parts' = <<>> /\ free' = <<>> /\ placed' = <<>> /\ sheetRemaining' = <<>>
          /\ result' = <<>> /\ failedPart' = 0
          /\ pc' = "loop"
  /\ UNCHANGED pageVars

\* while (partsToPack.length > 0) is false: colour and return
GenReturn ==
  /\ pc = "loop" /\ partsToPack = <<>>
  /\ result' = Coloured(finalPlacedParts, allParts, books)
  /\ pc' = "done"
  /\ UNCHANGED <<pageVars, genVars, packVars, sheetVars, failedPart>>

\* pack(partsToPack, globals, sheetIndexOffset) is entered
PackCall ==
  /\ pc = "loop" /\ partsToPack # <<>>
  /\ remaining' = partsToPack
  /\ placedParts' = <<>>
  /\ sheetIndex' = sheetIndexOffset
  /\ pc' = "packLoop"
  /\ UNCHANGED <<pageVars, genVars, sheetVars, result, failedPart>>

\* pack: while (remaining.length > 0) is false: return placedParts
PackReturn ==
  /\ pc = "packLoop" /\ remaining = <<>>
  /\ pc' = "verify"
  /\ UNCHANGED <<pageVars, genVars, packVars, sheetVars, result, failedPart>>

\* packSheet(remaining, packableW, packableH, ...) is entered
PackSheetCall ==
  /\ pc = "packLoop" /\ remaining # <<>>
  /\ parts' = SortParts(remaining, allParts)
  /\ free' = <<Rect(0, 0, globals.sheet_w - 2 * globals.margin,
                    globals.sheet_h - 2 * globals.margin)>>
  /\ placed' = <<>>
  /\ sheetRemaining' = <<>>
  /\ pc' = "place"
  /\ UNCHANGED <<pageVars, genVars, packVars, result, failedPart>>

\* packSheet, one turn of its loop, deferring the part without asking
\* whether a free rectangle admits it
DeferAnyPart ==
  /\ pc = "place" /\ parts # <<>>
  /\ sheetRemaining' = Append(sheetRemaining, Head(parts))
  /\ parts' = Tail(parts)
  /\ UNCHANGED <<pageVars, genVars, packVars, free, placed, pc, result, failedPart>>

\* packSheet, one turn of its loop: no free rectangle admits the part
DeferPart ==
  /\ pc = "place" /\ parts # <<>>
  /\ chooseMaxRectsPosition(allParts[Head(parts)], free, globals.allow_rotation,
                            globals.part_gap) = NoCandidate
  /\ sheetRemaining' = Append(sheetRemaining, Head(parts))
  /\ parts' = Tail(parts)
  /\ UNCHANGED <<pageVars, genVars, packVars, free, placed, pc, result, failedPart>>

\* packSheet, one turn of its loop: the part is placed and the free
\* rectangles are split and pruned
PlacePart ==
  /\ pc = "place" /\ parts # <<>>
  /\ LET part == allParts[Head(parts)]
         cand == chooseMaxRectsPosition(part, free, globals.allow_rotation, globals.part_gap)
     IN /\ cand # NoCandidate
        /\ placed' = Append(placed, [part |-> Head(parts), x |-> cand.x, y |-> cand.y,
                                     rotated |-> cand.rot])
        /\ free' = pruneFreeRects(
                     splitFreeRects(free, blockRect(part, cand, globals.part_gap),
                                    globals.sheet_w - 2 * globals.margin,
                                    globals.sheet_h - 2 * globals.margin))
  /\ parts' = Tail(parts)
  /\ UNCHANGED <<pageVars, genVars, packVars, sheetRemaining, pc, result, failedPart>>

\* pack, after packSheet placed nothing, returning without the sentinel
\* records of the rest
PackGiveUpSilent ==
  /\ pc = "place" /\ parts = <<>>
  /\ Len(placed) = 0 /\ Len(remaining) > 0
  /\ parts' = <<>> /\ free' = <<>> /\ placed' = <<>> /\ sheetRemaining' = <<>>
  /\ pc' = "verify"
  /\ UNCHANGED <<pageVars, genVars, packVars, result, failedPart>>

\* pack, after packSheet placed nothing: the rest is marked -1 and pack returns
PackGiveUp ==
  /\ pc = "place" /\ parts = <<>>
  /\ Len(placed) = 0 /\ Len(remaining) > 0
  /\ placedParts' = placedParts \o
       [i \in DOMAIN sheetRemaining |-> PlacedPart(sheetRemaining[i], -1, 0, 0, FALSE)]
  /\ parts' = <<>> /\ free' = <<>> /\ placed' = <<>> /\ sheetRemaining' = <<>>
  /\ pc' = "verify"
  /\ UNCHANGED <<pageVars, genVars, remaining, sheetIndex, result, failedPart>>

\* pack, after packSheet placed something: the sheet is recorded
PackSheetDone ==
  /\ pc = "place" /\ parts = <<>>
  /\ ~(Len(placed) = 0 /\ Len(remaining) > 0)
  /\ placedParts' = placedParts \o
       [i \in DOMAIN placed |->
          PlacedPart(placed[i].part, sheetIndex, placed[i].x + globals.margin,
                     placed[i].y + globals.margin, placed[i].rotated)]
  /\ remaining' = sheetRemaining
  /\ sheetIndex' = sheetIndex + 1
  /\ parts' = <<>> /\ free' = <<>> /\ placed' = <<>> /\ sheetRemaining' = <<>>
  /\ pc' = "packLoop"
  /\ UNCHANGED <<pageVars, genVars, result, failedPart>>

\* the verification of packedAttempt, when every part of the batch overflowed
VerifyThrow ==
  /\ pc = "verify"
  /\ LET overflowUids == OverflowUids(placedParts, allParts, globals)
     IN /\ Len(overflowUids) > 0 /\ Len(overflowUids) = Len(partsToPack)
        /\ failedPart' = allPartsByUid(allParts, overflowUids[1])
  /\ finalPlacedParts' = finalPlacedParts \o ValidlyPlaced(placedParts, allParts, globals)
  /\ pc' = "fatal"
  /\ UNCHANGED <<pageVars, allParts, partsToPack, sheetIndexOffset, packVars, sheetVars,
                 result>>

\* the verification of packedAttempt without the fatal check before it
VerifyContinueUnguarded ==
  /\ pc = "verify"
  /\ LET overflowUids == OverflowUids(placedParts, allParts, globals)
         final == finalPlacedParts \o ValidlyPlaced(placedParts, allParts, globals)
     IN /\ finalPlacedParts' = final
        /\ partsToPack' = [i \in DOMAIN overflowUids |->
                             allPartsByUid(allParts, overflowUids[i])]
        /\ sheetIndexOffset' = NextSheetIndexOffset(final)
  /\ remaining' = <<>> /\ placedParts' = <<>> /\ sheetIndex' = 0
  /\ pc' = "loop"
  /\ UNCHANGED <<pageVars, allParts, sheetVars, result, failedPart>>

\* the verification of packedAttempt, when the loop goes on
VerifyContinue ==
  /\ pc = "verify"
  /\ LET overflowUids == OverflowUids(placedParts, allParts, globals)
         final == finalPlacedParts \o ValidlyPlaced(placedParts, allParts, globals)
     IN /\ ~(Len(overflowUids) > 0 /\ Len(overflowUids) = Len(partsToPack))
        /\ finalPlacedParts' = final
        /\ partsToPack' = [i \in DOMAIN overflowUids |->
                             allPartsByUid(allParts, overflowUids[i])]
        /\ sheetIndexOffset' = NextSheetIndexOffset(final)
  /\ remaining' = <<>> /\ placedParts' = <<>> /\ sheetIndex' = 0
  /\ pc' = "loop"
  /\ UNCHANGED <<pageVars, allParts, sheetVars, result, failedPart>>

Next ==
  \/ Tick
  \/ handleAddBook
  \/ \E b \in BookInputs, id \in 1..MaxClock : handleUpdateBook(BookWithId(b, id))
  \/ \E id \in 1..MaxClock : handleRemoveBook(id)
  \/ \E g \in GlobalsInputs : setGlobals(g)
  \/ handleGenerate
  \/ GenReturn
  \/ PackCall
  \/ PackReturn
  \/ PackSheetCall
  \/ DeferPart
  \/ PlacePart
  \/ PackGiveUp
  \/ PackSheetDone
  \/ VerifyThrow
  \/ VerifyContinue

Spec == Init /\ [][Next]_vars

TypeOK ==
  /\ now \in 1..MaxClock
  /\ Len(books) <= MaxBooks
  /\ pc \in {"idle", "loop", "packLoop", "place", "verify", "done", "fatal"}

\* ------------------------------------------------------- The packer alone

\* pack(parts, globals, startSheetIndex) called on its own, with plain
\* rectangular parts: the bounds of its inputs
MaxParts == 3
MaxStartSheet == 1

\* a Part that is a plain w x h rectangle without holes
RectPart(k, pw, ph) ==
  [uid |-> <<0, "BASE", k>>, jobId |-> 0, partType |-> "BASE", w |-> pw, h |-> ph,
   holes |-> <<>>, contourPoints |-> <<Pt(0, 0), Pt(pw, 0), Pt(pw, ph), Pt(0, ph)>>]

\* the sizes of the parts handed to pack: 4 x 4, 5 x 9, 10.0000005 x 2,
\* 12 x 1, 9.9999995 x 3 and 4 x 4.0000005 inches
PartSizes ==
  <<[w |-> 8000000, h |-> 8000000], [w |-> 10000000, h |-> 18000000],
    [w |-> 20000001, h |-> 4000000], [w |-> 24000000, h |-> 2000000],
    [w |-> 19999999, h |-> 6000000], [w |-> 8000000, h |-> 8000001]>>

\* a sheet with a usable area of 10 x 10, no gap, rotation allowed
ScenarioASheet ==
  [defaultGlobals EXCEPT !.sheet_w = 20000000, !.sheet_h = 20000000, !.margin = 0,
                         !.part_gap = 0]

\* the sheets: the one above, and sheets with a usable area of 10 x 6
\* behind a margin of 0.25 and with a gap of 0.08, with and without rotation
PackSheets ==
  {ScenarioASheet,
   [defaultGlobals EXCEPT !.sheet_w = 21000000, !.sheet_h = 13000000],
   [defaultGlobals EXCEPT !.sheet_w = 21000000, !.sheet_h = 13000000,
                          !.allow_rotation = FALSE]}

\* the lists of at most MaxParts parts
PartLists ==
  UNION {{[k \in 1..n |-> RectPart(k, PartSizes[c[k]].w, PartSizes[c[k]].h)]
          : c \in [1..n -> DOMAIN PartSizes]} : n \in 1..MaxParts}

PackInit ==
  /\ now = 1
  /\ books = <<>>
  /\ globals \in PackSheets
  /\ pc = "loop"
  /\ allParts \in PartLists
  /\ partsToPack = [i \in DOMAIN allParts |-> i]
  /\ finalPlacedParts = <<>>
  /\ sheetIndexOffset \in 0..MaxStartSheet
  /\ remaining = <<>> /\ placedParts = <<>> /\ sheetIndex = 0
  /\ parts = <<>> /\ free = <<>> /\ placed = <<>> /\ sheetRemaining = <<>>
  /\ result = <<>> /\ failedPart = 0

PackNext ==
  \/ PackCall
  \/ PackReturn
  \/ PackSheetCall
  \/ DeferPart
  \/ PlacePart
  \/ PackGiveUp
  \/ PackSheetDone

\* pack from its call to its return
PackSpec == PackInit /\ [][PackNext]_vars

\* ------------------------------------------------- The part factory alone

\* the jobs handed to the part factory: cases 2.12 in wide whose depth and
\* wall height grow in steps of 0.25 in, with both settings of
\* symmetric_ends, each magnet count of the form, and magnets 0.5 in or
\* 0.3 in from the edges
MaxSizeSteps == 6

GeomJobs ==
  {[defaultBook EXCEPT !.W_ext = 4240000,
                       !.D_ext = 3000000 + (k - 1) * 500000,
                       !.h_visible = 100000 + (k - 1) * 500000,
                       !.symmetric_ends = s, !.mag_count = m, !.mag_edge_offset = o]
   : k \in 1..MaxSizeSteps, s \in BOOLEAN, m \in {0, 2, 4}, o \in {1000000, 600000}}

\* the material: 0.118 in and 0.15 in thick
GeomGlobals == {defaultGlobals, [defaultGlobals EXCEPT !.t = 300000]}

GeomInit ==
  /\ now = 1
  /\ \E job \in GeomJobs : books = <<BookWithId(job, 1)>>
  /\ globals \in GeomGlobals
  /\ pc = "idle"
  /\ allParts = <<>> /\ partsToPack = <<>> /\ finalPlacedParts = <<>>
  /\ sheetIndexOffset = 0
  /\ remaining = <<>> /\ placedParts = <<>> /\ sheetIndex = 0
  /\ parts = <<>> /\ free = <<>> /\ placed = <<>> /\ sheetRemaining = <<>>
  /\ result = <<>> /\ failedPart = 0

GeomNext == handleGenerate

\* the parts of one job, from the call of generatePlacedParts to its loop
GeomSpec == GeomInit /\ [][GeomNext]_vars

\* --------------------------------------------------- pruneFreeRects alone

\* pruneFreeRects(free) called on its own: the lists of at most MaxFree
\* rectangles out of the 10 x 10 sheet, its corner 4 x 4, the two
\* rectangles left beside and below that corner, and a 4 x 4 across them
MaxFree == 3

FreeRectInputs ==
  {Rect(0, 0, 20000000, 20000000), Rect(0, 0, 8000000, 8000000),
   Rect(8000000, 0, 12000000, 8000000), Rect(0, 8000000, 20000000, 12000000),
   Rect(4000000, 4000000, 8000000, 8000000)}

FreeLists == UNION {[1..n -> FreeRectInputs] : n \in 0..MaxFree}

PruneInit ==
  /\ now = 1
  /\ books = <<>>
  /\ globals = ScenarioASheet
  /\ pc = "prune"
  /\ allParts = <<>> /\ partsToPack = <<>> /\ finalPlacedParts = <<>>
  /\ sheetIndexOffset = 0
  /\ remaining = <<>> /\ placedParts = <<>> /\ sheetIndex = 0
  /\ parts = <<>> /\ free \in FreeLists /\ placed = <<>> /\ sheetRemaining = <<>>
  /\ result = <<>> /\ failedPart = 0

\* free = pruneFreeRects(free)
Prune ==
  /\ pc = "prune"
  /\ free' = pruneFreeRects(free)
  /\ pc' = "pruned"
  /\ UNCHANGED <<pageVars, genVars, packVars, parts, placed, sheetRemaining, result,
                 failedPart>>

PruneNext == Prune

PruneSpec == PruneInit /\ [][PruneNext]_vars

\* -------------------------------------------------------------- Properties

\* the part a placement copies
PartOf(pp) == allParts[pp.part]

\* the empty sheet the packer starts from
EmptySheet ==
  <<Rect(0, 0, globals.sheet_w - 2 * globals.margin, globals.sheet_h - 2 * globals.margin)>>

\* the packer finds a position for the part on an empty sheet
PackerPlacesAlone(part) ==
  chooseMaxRectsPosition(part, EmptySheet, globals.allow_rotation, globals.part_gap)
    # NoCandidate

\* the placement pack reports for the part packed alone on an empty sheet
AlonePlacement(k) ==
  LET cand == chooseMaxRectsPosition(allParts[k], EmptySheet, globals.allow_rotation,
                                     globals.part_gap)
  IN PlacedPart(k, 0, cand.x + globals.margin, cand.y + globals.margin, cand.rot)

\* the part, packed alone, is placed by the packer and accepted by the verifier
AloneOK(k) ==
  /\ PackerPlacesAlone(allParts[k])
  /\ isPartInBounds(AlonePlacement(k), allParts[k], globals)

DistinctJobIds == \A i, j \in DOMAIN books : i # j => books[i].id # books[j].id

\* the box of a placement after rotation, padded by the gap
PaddedBox(pp) ==
  Rect(pp.x, pp.y,
       (IF pp.rotated THEN PartOf(pp).h ELSE PartOf(pp).w) + globals.part_gap,
       (IF pp.rotated THEN PartOf(pp).w ELSE PartOf(pp).h) + globals.part_gap)

CommonInteriorPoint(a, b) ==
  /\ a.x < b.x + b.w /\ b.x < a.x + a.w
  /\ a.y < b.y + b.h /\ b.y < a.y + a.h

\* C1: in every result of generatePlacedParts, two distinct placements on
\* the same sheet have gap-padded boxes without a common interior point.
C1_NoOverlap ==
  pc = "done" =>
    \A i, j \in DOMAIN result :
      (i # j /\ result[i].sheetIndex = result[j].sheetIndex)
        => ~CommonInteriorPoint(PaddedBox(result[i]), PaddedBox(result[j]))

\* a local point of a placement's part in sheet space: the translation, and
\* the quarter turn when rotated
SheetPoint(pp, q) ==
  IF pp.rotated THEN Pt(pp.x + PartOf(pp).h - q.y, pp.y + q.x)
  ELSE Pt(pp.x + q.x, pp.y + q.y)

HoleCorners(hole) ==
  {Pt(hole.cx + dx * hole.r, hole.cy + dy * hole.r) : dx \in {-1, 1}, dy \in {-1, 1}}

WithinMargins(q) ==
  /\ globals.margin - BOUND_TOL <= q.x /\ q.x <= globals.sheet_w - globals.margin + BOUND_TOL
  /\ globals.margin - BOUND_TOL <= q.y /\ q.y <= globals.sheet_h - globals.margin + BOUND_TOL

PlacementWithinMargins(pp) ==
  /\ \A k \in DOMAIN PartOf(pp).contourPoints :
       WithinMargins(SheetPoint(pp, PartOf(pp).contourPoints[k]))
  /\ \A k \in DOMAIN PartOf(pp).holes :
       \A q \in HoleCorners(PartOf(pp).holes[k]) : WithinMargins(SheetPoint(pp, q))

\* C2: every placement generatePlacedParts keeps or returns has all its
\* contour points and all hole corners, in sheet space, within the margins
\* up to the tolerance; a placement the verifier rejects is never kept.
C2_ResultWithinBounds ==
  /\ \A i \in DOMAIN finalPlacedParts : PlacementWithinMargins(finalPlacedParts[i])
  /\ \A i \in DOMAIN result : PlacementWithinMargins(result[i])

\* C2 happens: after a verification some placements are kept and a part the
\* packer can place (so it was reported with a position, not as the
\* sentinel) waits for its retry because the verifier rejected it
C2_Witness ==
  /\ pc = "loop"
  /\ finalPlacedParts # <<>>
  /\ \E i \in DOMAIN partsToPack : PackerPlacesAlone(allParts[partsToPack[i]])

\* C3: when generatePlacedParts returns, its result holds exactly one
\* placement for each generated part, six per job, one of each part type.
C3_OnePlacementPerPart ==
  pc = "done" =>
    /\ Len(allParts) = 6 * Len(books)
    /\ \A b \in DOMAIN books : \A t \in 1..6 :
         allParts[6 * (b - 1) + t].partType = PartTypes[t]
    /\ Len(result) = Len(allParts)
    /\ \A k \in DOMAIN allParts :
         Cardinality({i \in DOMAIN result : result[i].part = k}) = 1

\* the same, for books whose ids are pairwise distinct
C3_WhenIdsDistinct == DistinctJobIds => C3_OnePlacementPerPart

\* C4: if some generated part cannot be placed on an empty sheet, the call
\* ends by throwing, returns nothing, and the part it names belongs to the
\* batch in which every part overflowed.
C4_UnplaceableThrows ==
  (/\ pc \in {"done", "fatal"}
   /\ \E k \in DOMAIN allParts : ~PackerPlacesAlone(allParts[k]))
  => /\ pc = "fatal"
     /\ result = <<>>
     /\ \E i \in DOMAIN partsToPack : partsToPack[i] = failedPart
     /\ \A i \in DOMAIN partsToPack :
          \E j \in DOMAIN placedParts :
            /\ placedParts[j].part = partsToPack[i]
            /\ IsOverflow(placedParts[j], allParts, globals)

\* the same, for books whose ids are pairwise distinct
C4_WhenIdsDistinct == DistinctJobIds => C4_UnplaceableThrows

\* an iteration of the pack-verify-retry loop that does not throw leaves a
\* strictly smaller pending batch
RetryShrinksBatch ==
  (pc = "verify" /\ pc' = "loop") => Len(partsToPack') < Len(partsToPack)

\* a sheet of pack's loop that does not stop it places at least one part
SheetPlacesAPart ==
  (pc = "place" /\ pc' = "packLoop") => Len(remaining') < Len(remaining)

\* where a started call stands inside one iteration of the retry loop:
\* before pack, inside pack, after pack
Stage == CASE pc = "loop" -> 3
           [] pc \in {"packLoop", "place"} -> 2
           [] OTHER -> 1

\* the variant of a started call: the pending batch, then the stage, then
\* the parts pack has left, then the parts the current sheet has yet to
\* visit (one more than any such count between two sheets)
Variant ==
  LET n == Len(allParts) + 2
      visit == IF pc = "packLoop" THEN Len(remaining) + 1 ELSE Len(parts)
  IN ((Len(partsToPack) * 4 + Stage) * n + Len(remaining)) * n + visit

Running == pc \in {"loop", "packLoop", "place", "verify"}

\* every step that leaves the call running strictly decreases the variant
StepDecreasesVariant == (Running /\ Running') => (0 <= Variant' /\ Variant' < Variant)

\* C5: generatePlacedParts terminates: every retry leaves a strictly smaller
\* batch, every sheet pack goes on from has placed a part, and every step of a
\* started call that does not end it decreases a natural-number variant, so
\* the call ends by returning or by throwing after finitely many steps.
C5_Terminates ==
  /\ [][RetryShrinksBatch]_vars
  /\ [][SheetPlacesAPart]_vars
  /\ [][StepDecreasesVariant]_vars

\* C5 happens: a retry is pending with a smaller batch than the call began
\* with, after an iteration that filled more than one sheet
C5_Witness ==
  /\ pc = "loop"
  /\ 0 < Len(partsToPack) /\ Len(partsToPack) < Len(allParts)
  /\ sheetIndexOffset > 1

\* C6: if every generated part, packed alone on an empty sheet, is placed
\* by the packer and accepted by the verifier, the call returns normally
\* and every part has a placement in its result.
C6_AllAloneOkReturns ==
  (/\ pc \in {"done", "fatal"}
   /\ \A k \in DOMAIN allParts : AloneOK(k))
  => /\ pc = "done"
     /\ \A k \in DOMAIN allParts : \E i \in DOMAIN result : result[i].part = k

\* the same, for books whose ids are pairwise distinct
C6_WhenIdsDistinct == DistinctJobIds => C6_AllAloneOkReturns

\* C7: no placement that generatePlacedParts keeps or returns has the
\* sentinel sheetIndex -1; every sheetIndex is >= 0.
C7_NoSentinelReturned ==
  /\ \A i \in DOMAIN finalPlacedParts : finalPlacedParts[i].sheetIndex >= 0
  /\ \A i \in DOMAIN result : result[i].sheetIndex >= 0

\* C7 happens: pack has emitted a sentinel record which the bounds check
\* alone would accept, and the call has ended by throwing
C7_Witness ==
  /\ pc = "fatal"
  /\ \E i \in DOMAIN placedParts :
       /\ placedParts[i].sheetIndex = -1
       /\ isPartInBounds(placedParts[i], PartOf(placedParts[i]), globals)

\* C9: all parts generated in one call have pairwise distinct uids.
C9_DistinctUids ==
  \A i, j \in DOMAIN allParts : i # j => allParts[i].uid # allParts[j].uid

\* the job a generated part was made from: six parts per job, in job order
JobPosition(k) == (k - 1) \div 6

\* C10: on success every returned placement has bookIndex equal to the
\* position of its job in the jobs list, and bookColor equal to
\* palette[bookIndex mod 8].
C10_BookIndexAndColor ==
  pc = "done" =>
    \A i \in DOMAIN result :
      /\ result[i].bookIndex = JobPosition(result[i].part)
      /\ result[i].bookColor = getBookColorPalette[(result[i].bookIndex % 8) + 1]

\* the same, for books whose ids are pairwise distinct
C10_WhenIdsDistinct == DistinctJobIds => C10_BookIndexAndColor

\* pack has returned: placedParts is its result
PackReturned == pc = "verify"

\* the box of a pack record in the usable area, without the gap
UsableBox(pp) ==
  Rect(pp.x - globals.margin, pp.y - globals.margin,
       IF pp.rotated THEN PartOf(pp).h ELSE PartOf(pp).w,
       IF pp.rotated THEN PartOf(pp).w ELSE PartOf(pp).h)

InsideUsable(box) ==
  /\ 0 <= box.x /\ box.x + box.w <= globals.sheet_w - 2 * globals.margin
  /\ 0 <= box.y /\ box.y + box.h <= globals.sheet_h - 2 * globals.margin

ScenarioA ==
  /\ globals = ScenarioASheet
  /\ sheetIndexOffset = 0
  /\ allParts = <<RectPart(1, 8000000, 8000000), RectPart(2, 8000000, 8000000)>>

\* C11: with a usable area of 10 x 10, gap 0 and rotation allowed, pack
\* puts two 4 x 4 parts on sheet 0, inside the usable area and without
\* overlap: the first at (0,0), the second at (4,0).
C11_ScenarioA ==
  (PackReturned /\ ScenarioA) =>
    /\ Len(placedParts) = 2
    /\ \A i \in DOMAIN placedParts :
         /\ placedParts[i].part = i
         /\ placedParts[i].sheetIndex = 0
         /\ InsideUsable(UsableBox(placedParts[i]))
    /\ ~CommonInteriorPoint(UsableBox(placedParts[1]), UsableBox(placedParts[2]))
    /\ UsableBox(placedParts[1]).x = 0 /\ UsableBox(placedParts[1]).y = 0
    /\ UsableBox(placedParts[2]).x = 8000000 /\ UsableBox(placedParts[2]).y = 0

\* C11 happens: pack has returned in scenario A
C11_Witness == PackReturned /\ ScenarioA /\ Len(placedParts) = 2

\* the parts have been made
PartsMade == pc = "loop" /\ allParts # <<>>

ContourXs(part) == {part.contourPoints[i].x : i \in DOMAIN part.contourPoints}
ContourYs(part) == {part.contourPoints[i].y : i \in DOMAIN part.contourPoints}

\* C12: the width and height of every panel are the extent of its contour
\* points, and the contour's least x and least y are 0.
C12_SizeIsContourExtent ==
  \A k \in DOMAIN allParts :
    /\ SetMin(ContourXs(allParts[k])) = 0
    /\ SetMin(ContourYs(allParts[k])) = 0
    /\ allParts[k].w = SetMax(ContourXs(allParts[k])) - SetMin(ContourXs(allParts[k]))
    /\ allParts[k].h = SetMax(ContourYs(allParts[k])) - SetMin(ContourYs(allParts[k]))

\* C12 happens: a panel has been built whose size is not the nominal size
\* it was asked for, so the teeth and the kerf decide its bounding box
C12_Witness ==
  /\ PartsMade
  /\ \E k \in DOMAIN allParts :
       /\ allParts[k].partType = "FRONT"
       /\ allParts[k].w # deriveInner(books[1]).W_int
       /\ allParts[k].h # deriveInner(books[1]).H_wall

\* the BASE part of the job, and the holes behind its relief holes
BaseOf(b) == allParts[6 * (b - 1) + 1]
MagnetHolesOf(b) ==
  SubSeq(BaseOf(b).holes, Len(BaseOf(b).holes) - books[b].mag_count + 1,
         Len(BaseOf(b).holes))
ReliefHolesOf(b) ==
  SubSeq(BaseOf(b).holes, 1, Len(BaseOf(b).holes) - books[b].mag_count)

\* min(cx, panelW - cx, cy, panelH - cy) - r
HoleEdgeDistance(hole, panelW, panelH) ==
  Min(Min(hole.cx, panelW - hole.cx), Min(hole.cy, panelH - hole.cy)) - hole.r

\* the distance from the hole's edge to the nearest of the valley points,
\* on the grid of Hypot
HoleValleyDistance(hole, valleys) ==
  SetMin({Hypot(hole.cx - valleys[j].cx, hole.cy - valleys[j].cy) : j \in DOMAIN valleys})
    - hole.r

\* C13: every magnet hole that enforceHoleClearances returned keeps its
\* edge at least max(3t, 0.3) from the nearest edge of the base panel and
\* at least max(2t, 0.25) from the nearest valley point (the latter up to
\* the three grid steps by which Hypot may differ from the distance).
C13_HoleClearances ==
  PartsMade =>
    \A b \in DOMAIN books : \A i \in DOMAIN MagnetHolesOf(b) :
      /\ HoleEdgeDistance(MagnetHolesOf(b)[i], BaseOf(b).w, BaseOf(b).h)
           >= Max(3 * globals.t, EDGE_MIN_FLOOR)
      /\ ReliefHolesOf(b) # <<>> =>
           HoleValleyDistance(MagnetHolesOf(b)[i], ReliefHolesOf(b))
             >= Max(2 * globals.t, VALLEY_MIN_FLOOR) - 3 * HYPOT_GRID

\* the relief holes of the base panel as makeFingerJointedPanel returns them
BaseReliefHoles(job, g) ==
  makeFingerJointedPanel(deriveInner(job).W_int, deriveInner(job).D_int,
    [top |-> Edge("female", 0), right |-> Edge("female", 0),
     bottom |-> Edge("female", 0), left |-> Edge("female", 0)],
    NoFeatures, g, job).holes

\* C14: the holes of the BASE part are its relief holes followed by exactly
\* mag_count magnet holes (mag_count in {0, 2, 4}), each of the magnet
\* radius; the other five panels of the job have relief holes only.
C14_MagnetHolesOnBaseOnly ==
  \A k \in DOMAIN allParts :
    LET job == books[JobPosition(k) + 1]
        holes == allParts[k].holes
    IN IF allParts[k].partType = "BASE"
       THEN /\ job.mag_count \in {0, 2, 4}
            /\ Len(holes) = Len(BaseReliefHoles(job, globals)) + job.mag_count
            /\ SubSeq(holes, 1, Len(holes) - job.mag_count) = BaseReliefHoles(job, globals)
            /\ \A i \in (Len(holes) - job.mag_count + 1)..Len(holes) :
                 holes[i].r = (job.mag_diam + job.mag_clear + globals.kerf) \div 2
       ELSE \A i \in DOMAIN holes : holes[i].r = RELIEF_R

\* C14 happens: a job with mag_count = 4 has been made into parts, and its
\* base carries relief holes too
C14_Witness ==
  /\ PartsMade
  /\ books[1].mag_count = 4
  /\ Len(BaseOf(1).holes) > 4
  /\ BaseOf(1).partType = "BASE"

\* the lengths of the toothed edges mkParts traces for the job
EdgeLengths(job) ==
  {deriveInner(job).W_int, deriveInner(job).D_int, deriveInner(job).H_wall}

\* Math.round(length / tab_w_nom), the count before the parity step
RoundedCount(length, g, job) == RoundDiv(length, Max(4 * g.t, job.tab_w_rule))

\* segment i of an edge is of the 'tab' kind
IsTabSegment(i) == i % 2 = 0

\* C15: with symmetric_ends the tab count of every toothed edge is odd and
\* at least 1 (an even rounded count becomes the next odd number), so the
\* first and the last segment are both tabs.
C15_SymmetricCountOdd ==
  PartsMade => \A b \in DOMAIN books :
    books[b].symmetric_ends =>
      \A length \in EdgeLengths(books[b]) :
        LET n == TabCount(length, globals, books[b])
        IN /\ n >= 1 /\ n % 2 = 1
           /\ RoundedCount(length, globals, books[b]) % 2 = 0
                => n = RoundedCount(length, globals, books[b]) + 1
           /\ IsTabSegment(0) /\ IsTabSegment(n - 1)

\* C15 happens: parts were made with symmetric_ends for an edge whose
\* rounded count is even and not 0, and for one whose rounded count is 0
C15_Witness ==
  /\ PartsMade
  /\ books[1].symmetric_ends
  /\ \E length \in EdgeLengths(books[1]) :
       /\ RoundedCount(length, globals, books[1]) > 0
       /\ RoundedCount(length, globals, books[1]) % 2 = 0
  /\ \E length \in EdgeLengths(books[1]) : RoundedCount(length, globals, books[1]) = 0

\* C16: without symmetric_ends the tab count of every toothed edge of
\* positive length is even.
C16_AsymmetricCountEven ==
  PartsMade => \A b \in DOMAIN books :
    ~books[b].symmetric_ends =>
      \A length \in EdgeLengths(books[b]) :
        length > 0 => TabCount(length, globals, books[b]) % 2 = 0

\* the same, for the edges whose rounded count is not 0
C16_WhenRoundedCountPositive ==
  PartsMade => \A b \in DOMAIN books :
    ~books[b].symmetric_ends =>
      \A length \in EdgeLengths(books[b]) :
        RoundedCount(length, globals, books[b]) > 0
          => TabCount(length, globals, books[b]) % 2 = 0

\* the part, grown by part_gap on both axes, is no larger than the usable
\* sheet plus the tolerance, as it lies or turned when rotation is allowed
FitsUsableSheet(part) ==
  LET packableW == globals.sheet_w - 2 * globals.margin
      packableH == globals.sheet_h - 2 * globals.margin
  IN \/ /\ part.w + globals.part_gap <= packableW + EPS
        /\ part.h + globals.part_gap <= packableH + EPS
     \/ /\ globals.allow_rotation
        /\ part.h + globals.part_gap <= packableW + EPS
        /\ part.w + globals.part_gap <= packableH + EPS

\* C17: in the result of pack a part has sheetIndex -1 if and only if,
\* grown by the gap, it fits the empty usable sheet in no allowed
\* orientation; every part that fits has a record with a sheet index of at
\* least startSheetIndex.
C17_SentinelIffNoFit ==
  PackReturned =>
    /\ \A i \in DOMAIN placedParts :
         /\ placedParts[i].sheetIndex = -1 <=> ~FitsUsableSheet(PartOf(placedParts[i]))
         /\ placedParts[i].sheetIndex # -1 => placedParts[i].sheetIndex >= sheetIndexOffset
    /\ \A k \in DOMAIN partsToPack :
         FitsUsableSheet(allParts[partsToPack[k]]) =>
           \E i \in DOMAIN placedParts :
             /\ placedParts[i].part = partsToPack[k]
             /\ placedParts[i].sheetIndex >= sheetIndexOffset

\* C17 happens: pack, started at a sheet index above 0, has returned a
\* sentinel record and the record of a part that fits the sheet only turned
C17_Witness ==
  /\ PackReturned
  /\ sheetIndexOffset > 0
  /\ \E i \in DOMAIN placedParts : placedParts[i].sheetIndex = -1
  /\ \E i \in DOMAIN placedParts :
       /\ placedParts[i].sheetIndex >= sheetIndexOffset
       /\ placedParts[i].rotated
       /\ PartOf(placedParts[i]).h + globals.part_gap
            > globals.sheet_h - 2 * globals.margin + EPS

\* how often the part (an index of allParts) stands in a list of indices,
\* and in the records of pack
TimesIn(idxs, k) == Cardinality({i \in DOMAIN idxs : idxs[i] = k})
RecordsOf(k) == Cardinality({i \in DOMAIN placedParts : placedParts[i].part = k})

\* C18: the records of pack are one per input part: between two sheets the
\* records so far and the parts still remaining are a partition of the
\* input list, and at the return every input part has exactly one record,
\* on a sheet >= startSheetIndex or with sheetIndex -1, which carries the
\* fields of the part it was made from.
C18_OneRecordPerPart ==
  /\ pc = "packLoop" =>
       \A k \in DOMAIN allParts :
         RecordsOf(k) + TimesIn(remaining, k) = TimesIn(partsToPack, k)
  /\ PackReturned =>
       /\ Len(placedParts) = Len(partsToPack)
       /\ \A k \in DOMAIN allParts : RecordsOf(k) = TimesIn(partsToPack, k)
       /\ \A i \in DOMAIN placedParts :
            /\ placedParts[i].sheetIndex >= sheetIndexOffset \/ placedParts[i].sheetIndex = -1
            /\ PartOf(placedParts[i]) \in Range(allParts)
            /\ DOMAIN placedParts[i]
                 = {"part", "sheetIndex", "x", "y", "rotated", "bookColor", "bookIndex"}

\* C18 happens: pack has returned records on two sheets and a sentinel
C18_Witness ==
  /\ PackReturned
  /\ \E i, j \in DOMAIN placedParts :
       /\ placedParts[i].sheetIndex >= sheetIndexOffset
       /\ placedParts[j].sheetIndex > placedParts[i].sheetIndex
  /\ \E i \in DOMAIN placedParts : placedParts[i].sheetIndex = -1

\* the gap-padded blocks of the parts placed so far on the current sheet
PlacedBlocks ==
  [i \in DOMAIN placed |->
     Rect(placed[i].x, placed[i].y,
          (IF placed[i].rotated THEN allParts[placed[i].part].h
           ELSE allParts[placed[i].part].w) + globals.part_gap,
          (IF placed[i].rotated THEN allParts[placed[i].part].w
           ELSE allParts[placed[i].part].h) + globals.part_gap)]

\* the usable sheet area
UsableArea ==
  Rect(0, 0, globals.sheet_w - 2 * globals.margin, globals.sheet_h - 2 * globals.margin)

\* the x and y coordinates at which a rectangle of the sheet begins or ends:
\* between two neighbouring ones no rectangle begins or ends, so the cell
\* that begins at (a, b) lies wholly inside or wholly outside each of them
CutXs ==
  {r.x : r \in Range(free) \cup Range(PlacedBlocks) \cup {UsableArea}}
  \cup {r.x + r.w : r \in Range(free) \cup Range(PlacedBlocks) \cup {UsableArea}}
CutYs ==
  {r.y : r \in Range(free) \cup Range(PlacedBlocks) \cup {UsableArea}}
  \cup {r.y + r.h : r \in Range(free) \cup Range(PlacedBlocks) \cup {UsableArea}}

CellIn(a, b, r) == r.x <= a /\ a < r.x + r.w /\ r.y <= b /\ b < r.y + r.h

CellFree(a, b) == \E r \in Range(free) : CellIn(a, b, r)
CellBlocked(a, b) == \E r \in Range(PlacedBlocks) : CellIn(a, b, r)

\* C19: during packSheet the union of the free rectangles is the usable
\* area minus the union of the gap-padded blocks placed so far: no free
\* rectangle overlaps a block and no free area is lost.
C19_FreeIsUsableMinusBlocks ==
  pc = "place" =>
    \A a \in CutXs \ {SetMax(CutXs)}, b \in CutYs \ {SetMax(CutYs)} :
      CellFree(a, b) <=> (CellIn(a, b, UsableArea) /\ ~CellBlocked(a, b))

\* no free rectangle has a point in common with the inside of a block
C19_FreeAvoidsBlocks ==
  pc = "place" =>
    \A a \in CutXs \ {SetMax(CutXs)}, b \in CutYs \ {SetMax(CutYs)} :
      CellFree(a, b) => (CellIn(a, b, UsableArea) /\ ~CellBlocked(a, b))

\* no point of the usable area outside the blocks is missing from the free
\* rectangles
C19_NoFreeAreaLost ==
  pc = "place" =>
    \A a \in CutXs \ {SetMax(CutXs)}, b \in CutYs \ {SetMax(CutYs)} :
      (CellIn(a, b, UsableArea) /\ ~CellBlocked(a, b)) => CellFree(a, b)

\* the cell that begins at (a, b) is more than EPS wide and high
CellAboveTolerance(a, b) ==
  /\ SetMin({x \in CutXs : x > a}) - a > EPS
  /\ SetMin({y \in CutYs : y > b}) - b > EPS

\* the same, for the cells that are more than the tolerance wide and high
C19_UpToTolerance ==
  pc = "place" =>
    \A a \in CutXs \ {SetMax(CutXs)}, b \in CutYs \ {SetMax(CutYs)} :
      CellAboveTolerance(a, b) =>
        (CellFree(a, b) <=> (CellIn(a, b, UsableArea) /\ ~CellBlocked(a, b)))

\* every rectangle of the list before the step lies in a rectangle of the
\* list after it
CoveredAfterwards ==
  \A i \in DOMAIN free : \E k \in DOMAIN free' : contains(free'[k], free[i])

C20_WhenNoMutualContainment ==
  [][(/\ pc = "prune" /\ pc' = "pruned"
      /\ \A i, j \in DOMAIN free :
           i # j => ~(contains(free[i], free[j]) /\ contains(free[j], free[i])))
     => CoveredAfterwards]_vars

\* in packSheet the free rectangles never have a common interior point, so
\* none of them contains another
FreeRectsDisjoint ==
  \A i, j \in DOMAIN free : i # j => ~CommonInteriorPoint(free[i], free[j])

\* packSheet is about to call chooseMaxRectsPosition for the next part
AtChoice == pc = "place" /\ parts # <<>>
NextPart == allParts[Head(parts)]
Choice ==
  chooseMaxRectsPosition(NextPart, free, globals.allow_rotation, globals.part_gap)

\* the padded part as it lies (rot FALSE) or turned (rot TRUE)
PaddedW(part, rot) == (IF rot THEN part.h ELSE part.w) + globals.part_gap
PaddedH(part, rot) == (IF rot THEN part.w ELSE part.h) + globals.part_gap

\* free rectangle i admits the part in the orientation, which is allowed
Admits(i, part, rot) ==
  /\ rot => globals.allow_rotation
  /\ PaddedW(part, rot) <= free[i].w + EPS
  /\ PaddedH(part, rot) <= free[i].h + EPS

FitScore(i, part, rot) ==
  Min(free[i].w - PaddedW(part, rot), free[i].h - PaddedH(part, rot))

\* (i, rot) is evaluated before (j, rot2)
EvaluatedBefore(i, rot, j, rot2) == i < j \/ (i = j /\ ~rot /\ rot2)

\* C21: chooseMaxRectsPosition returns null exactly when no free rectangle
\* admits the padded part in an allowed orientation; otherwise it returns
\* an admitted fit at the corner of its rectangle whose score is the
\* lowest, and every other fit of that score is evaluated after it.
C21_LowestScoreFirstInOrder ==
  AtChoice =>
    /\ Choice = NoCandidate
         <=> ~\E i \in DOMAIN free, rot \in BOOLEAN : Admits(i, NextPart, rot)
    /\ Choice # NoCandidate =>
         /\ Choice.rIndex \in DOMAIN free
         /\ Admits(Choice.rIndex, NextPart, Choice.rot)
         /\ Choice.x = free[Choice.rIndex].x /\ Choice.y = free[Choice.rIndex].y
         /\ Choice.score = FitScore(Choice.rIndex, NextPart, Choice.rot)
         /\ \A i \in DOMAIN free, rot \in BOOLEAN :
              Admits(i, NextPart, rot) =>
                \/ FitScore(i, NextPart, rot) > Choice.score
                \/ i = Choice.rIndex /\ rot = Choice.rot
                \/ /\ FitScore(i, NextPart, rot) = Choice.score
                   /\ EvaluatedBefore(Choice.rIndex, Choice.rot, i, rot)

\* C21 happens: with two free rectangles, a fit in the second is chosen
\* over one in the first that scores higher, and another fit has the score
\* of the chosen one
C21_Witness ==
  /\ AtChoice /\ Len(free) >= 2
  /\ Choice # NoCandidate
  /\ Choice.rIndex = 2
  /\ \E rot \in BOOLEAN :
       Admits(1, NextPart, rot) /\ FitScore(1, NextPart, rot) > Choice.score
  /\ \E i \in DOMAIN free, rot \in BOOLEAN :
       /\ <<i, rot>> # <<Choice.rIndex, Choice.rot>>
       /\ Admits(i, NextPart, rot)
       /\ FitScore(i, NextPart, rot) = Choice.score

\* C21 happens too: no free rectangle admits the part
C21_WitnessNull == AtChoice /\ free # <<>> /\ Choice = NoCandidate

\* the place of part k in the list packSheet was given
PlaceInInput(k) == CHOOSE i \in DOMAIN remaining : remaining[i] = k

LargestSide(k) == Max(allParts[k].w, allParts[k].h)

\* part a is attempted before part b under the claimed order
OrderedBefore(a, b) ==
  \/ LargestSide(a) > LargestSide(b)
  \/ (LargestSide(a) = LargestSide(b) /\ PlaceInInput(a) < PlaceInInput(b))

\* the parts packSheet has attempted on the current sheet
Attempted ==
  {placed[i].part : i \in DOMAIN placed} \cup Range(sheetRemaining)

\* C22: on each sheet packSheet attempts the parts it was given, each
\* once, in non-increasing order of max(w, h), parts of equal max(w, h) in
\* their order in the input list: the parts still to come are in that
\* order, and every part attempted so far comes before them in it.
C22_LargestFirstStable ==
  pc = "place" =>
    /\ Attempted \cup Range(parts) = Range(remaining)
    /\ Cardinality(Attempted) + Len(parts) = Len(remaining)
    /\ \A i, j \in DOMAIN parts : i < j => OrderedBefore(parts[i], parts[j])
    /\ \A a \in Attempted : \A j \in DOMAIN parts : OrderedBefore(a, parts[j])

\* C22 happens: packSheet was given a list that begins with a smaller part
\* and holds two parts of equal max(w, h), and has attempted one part
C22_Witness ==
  /\ pc = "place" /\ Len(remaining) >= 3 /\ Len(parts) = Len(remaining) - 1
  /\ LargestSide(remaining[1]) < LargestSide(remaining[2])
  /\ \E i, j \in DOMAIN parts :
       i # j /\ LargestSide(parts[i]) = LargestSide(parts[j])

\* a part is deferred on a sheet only at its turn and only if no free
\* rectangle admits it then in an allowed orientation
DeferredOnlyIfNotAdmitted ==
  (pc = "place" /\ sheetRemaining' # sheetRemaining /\ pc' = "place") =>
    /\ parts # <<>>
    /\ sheetRemaining' = Append(sheetRemaining, Head(parts))
    /\ ~\E i \in DOMAIN free, rot \in BOOLEAN : Admits(i, NextPart, rot)

\* when a sheet is done its placed parts are recorded on that sheet, and
\* the parts deferred on it, and no others, go to the next sheet
DeferredGoToNextSheet ==
  (pc = "place" /\ pc' = "packLoop") =>
    /\ remaining' = sheetRemaining
    /\ sheetIndex' = sheetIndex + 1
    /\ Len(placedParts') = Len(placedParts) + Len(placed)
    /\ \A i \in DOMAIN placed :
         /\ placedParts'[Len(placedParts) + i].part = placed[i].part
         /\ placedParts'[Len(placedParts) + i].sheetIndex = sheetIndex
    /\ \A i \in DOMAIN placedParts : placedParts'[i] = placedParts[i]

\* C23: within one pack call a part reaches a later sheet only by being
\* deferred on every sheet before it, and it is deferred only if at its
\* turn no free rectangle admitted it in an allowed orientation; the parts
\* deferred on a sheet are tried again on the next sheet only.
C23_LaterSheetOnlyAfterDeferral ==
  /\ [][DeferredOnlyIfNotAdmitted]_vars
  /\ [][DeferredGoToNextSheet]_vars

\* C23 happens: a part deferred on the first sheet of the call has been
\* placed on a later one
C23_Witness ==
  /\ pc = "place"
  /\ sheetIndex > sheetIndexOffset
  /\ placed # <<>>
  /\ \E i \in DOMAIN placedParts : placedParts[i].sheetIndex = sheetIndexOffset

\* the sheet indices of the placements accepted so far
AcceptedSheets == {finalPlacedParts[i].sheetIndex : i \in DOMAIN finalPlacedParts}

\* C24: in every iteration of the orchestrator loop pack starts at the
\* sheet index one greater than the largest sheet index among the accepted
\* placements (0 when there is none), so no part of the batch is put on a
\* sheet that holds an accepted placement.
C24_RetryOnFreshSheet ==
  Running =>
    /\ sheetIndexOffset = IF AcceptedSheets = {} THEN 0 ELSE SetMax(AcceptedSheets) + 1
    /\ pc \in {"packLoop", "place"} => sheetIndex >= sheetIndexOffset
    /\ \A i \in DOMAIN placedParts :
         placedParts[i].sheetIndex # -1 =>
           /\ placedParts[i].sheetIndex >= sheetIndexOffset
           /\ placedParts[i].sheetIndex \notin AcceptedSheets

\* C24 happens: parts that overflowed in an earlier iteration have been
\* packed again, with a position, while accepted placements exist
C24_Witness ==
  /\ pc = "verify"
  /\ finalPlacedParts # <<>>
  /\ \E i \in DOMAIN placedParts : placedParts[i].sheetIndex > 0

\* every placement record that exists: of the current sheet, of the
\* current pack call, accepted, and returned
RotatedFlags ==
  {placed[i].rotated : i \in DOMAIN placed}
  \cup {placedParts[i].rotated : i \in DOMAIN placedParts}
  \cup {finalPlacedParts[i].rotated : i \in DOMAIN finalPlacedParts}
  \cup {result[i].rotated : i \in DOMAIN result}

\* C25: with allow_rotation false no placement of pack or of
\* generatePlacedParts is rotated; with it, the packer turns a part only
\* if the turned fit scores strictly lower than every unrotated fit
\* evaluated before it (in the same or an earlier free rectangle).
C25_RotationOnlyWhenAllowedAndBetter ==
  /\ ~globals.allow_rotation => TRUE \notin RotatedFlags
  /\ (AtChoice /\ Choice # NoCandidate /\ Choice.rot) =>
       /\ globals.allow_rotation
       /\ \A j \in 1..Choice.rIndex :
            Admits(j, NextPart, FALSE) => Choice.score < FitScore(j, NextPart, FALSE)

\* C25 happens: with rotation off a call has returned placements of parts
\* whose turned fit on the empty sheet scores lower than the unrotated one
C25_Witness ==
  /\ pc = "done" /\ ~globals.allow_rotation /\ result # <<>>
  /\ \E i \in DOMAIN result :
       Min(UsableArea.w - PaddedW(PartOf(result[i]), TRUE),
           UsableArea.h - PaddedH(PartOf(result[i]), TRUE))
         < Min(UsableArea.w - PaddedW(PartOf(result[i]), FALSE),
               UsableArea.h - PaddedH(PartOf(result[i]), FALSE))
       /\ PaddedW(PartOf(result[i]), TRUE) <= UsableArea.w
       /\ PaddedH(PartOf(result[i]), TRUE) <= UsableArea.h

\* C25 happens too: with rotation on the packer is about to turn a part
\* that an earlier free rectangle admits unrotated
C25_WitnessTurned ==
  /\ AtChoice /\ Choice # NoCandidate /\ Choice.rot
  /\ \E j \in 1..Choice.rIndex : Admits(j, NextPart, FALSE)

\* the four toothed edges mkParts asks for, in the order top, right,
\* bottom, left: the length and the EdgeParams of each
PanelEdges(ptype, job) ==
  LET d == deriveInner(job)
      outerW == IF ptype \in {"LEFT", "RIGHT"} THEN d.D_int ELSE d.W_int
      outerH == IF ptype \in {"BASE", "LID"} THEN d.D_int ELSE d.H_wall
      role == IF ptype \in {"BASE", "LID"} THEN "female" ELSE "male"
      side == IF ptype \in {"LEFT", "RIGHT"} THEN "female" ELSE role
      strip == IF ptype \in {"LID", "BACK"} THEN job.tape_reserved_strip ELSE 0
  IN <<[length |-> outerW, edgeParams |-> Edge(role, 0)],
       [length |-> outerH, edgeParams |-> Edge(side, strip)],
       [length |-> outerW, edgeParams |-> Edge(role, 0)],
       [length |-> outerH, edgeParams |-> Edge(side, 0)]>>

\* the segments of the edge that are neither reserved, nor even on a
\* female edge, nor odd on a male edge
NotchedSegments(e, g, job) ==
  {i \in 0..(TabCount(e.length, g, job) - 1) :
     /\ ~IsReserved(i, e.length, TabCount(e.length, g, job), e.edgeParams, <<>>, "x")
     /\ ~(e.edgeParams.role = "female" /\ i % 2 = 0)
     /\ ~(e.edgeParams.role = "male" /\ i % 2 = 1)}

\* the edge as addEdgePath traces it from the origin along x
EdgeTraced(e, g, job) ==
  addEdgePath(Pt(0, 0), e.length, e.edgeParams, <<>>, "x", 1, Pt(0, -1), g, job)

\* the contour points of the edge that lie on the edge line, and those
\* pushed out by the material thickness
OnEdgeLine(e, g, job) ==
  {i \in DOMAIN EdgeTraced(e, g, job).points : EdgeTraced(e, g, job).points[i].y = 0}
AtToothDepth(e, g, job) ==
  {i \in DOMAIN EdgeTraced(e, g, job).points : EdgeTraced(e, g, job).points[i].y = -g.t}

\* the relief holes of the part: its holes less the magnet holes of a base
ReliefCount(k) ==
  Len(allParts[k].holes)
    - (IF allParts[k].partType = "BASE" THEN books[JobPosition(k) + 1].mag_count ELSE 0)

\* C26: on a toothed edge segment i is flat when it is reserved, or the
\* role is female and i even, or the role is male and i odd; every other
\* segment is a notch of depth t (two points on the edge line, two pushed
\* out by t) that adds two valley points, so the valley points of an edge,
\* and the relief holes of a panel, number twice the notched segments.
C26_TwoValleysPerNotch ==
  PartsMade =>
    \A k \in DOMAIN allParts :
      LET job == books[JobPosition(k) + 1]
          edges == PanelEdges(allParts[k].partType, job)
      IN /\ \A j \in 1..4 :
              LET n == TabCount(edges[j].length, globals, job)
                  notched == Cardinality(NotchedSegments(edges[j], globals, job))
              IN /\ Len(EdgeTraced(edges[j], globals, job).valleys) = 2 * notched
                 /\ Cardinality(AtToothDepth(edges[j], globals, job)) = 2 * notched
                 /\ Cardinality(OnEdgeLine(edges[j], globals, job)) = 1 + n + notched
         /\ ReliefCount(k)
              = 2 * (Cardinality(NotchedSegments(edges[1], globals, job))
                     + Cardinality(NotchedSegments(edges[2], globals, job))
                     + Cardinality(NotchedSegments(edges[3], globals, job))
                     + Cardinality(NotchedSegments(edges[4], globals, job)))

\* C26 happens: panels were made of which one has a male edge with
\* notches and a reserved segment that its role would have notched, and
\* one has a female edge with notches
C26_Witness ==
  /\ PartsMade
  /\ \E k \in DOMAIN allParts :
       LET e == PanelEdges(allParts[k].partType, books[1])[2]
       IN /\ allParts[k].partType = "BACK"
          /\ IsReserved(0, e.length, TabCount(e.length, globals, books[1]),
                        e.edgeParams, <<>>, "x")
          /\ ReliefCount(k) > 0
  /\ \E k \in DOMAIN allParts : allParts[k].partType = "LID" /\ ReliefCount(k) > 0

\* the right edge of the panel, the one mkParts may give a reserved strip
RightEdge(k) == PanelEdges(allParts[k].partType, books[JobPosition(k) + 1])[2]
RightCount(k) == TabCount(RightEdge(k).length, globals, books[JobPosition(k) + 1])

\* the panels whose right edge has a reserved strip
Reserving == {k \in DOMAIN allParts : RightEdge(k).edgeParams.reserveStrip > 0}

\* segment i of the right edge begins less than the strip's width from the
\* start of the edge, or ends less than that from its finish
NearEnd(i, k, end) ==
  IF end = "start"
  THEN SegStart(i, RightEdge(k).length, RightCount(k)) < RightEdge(k).edgeParams.reserveStrip
  ELSE RightEdge(k).length - SegStart(i + 1, RightEdge(k).length, RightCount(k))
         < RightEdge(k).edgeParams.reserveStrip

\* what the role and the parity alone make of segment i
RoleKind(i, role) ==
  IF (role = "female" /\ i % 2 = 0) \/ (role = "male" /\ i % 2 = 1) THEN "flat" ELSE "notch"

\* what addEdgePath makes of segment i of the right edge
RightKind(i, k) ==
  SegmentKind(i, RightEdge(k).length, RightCount(k), RightEdge(k).edgeParams, <<>>, "y")

\* the segments of the right edge that the role would notch and that lie
\* near one of the given ends
NotchesNear(k, ends) ==
  {i \in 0..(RightCount(k) - 1) :
     RoleKind(i, RightEdge(k).edgeParams.role) = "notch" /\ \E end \in ends : NearEnd(i, k, end)}

\* the panel of the same job with the same size and roles and no strip:
\* the base for the lid, the front for the back
Unreserved(k) == k - 1

\* C27 as stated: the reservation keeps straight a sub-range near one end
\* of the edge only: every segment inside the strip at that end is flat
\* whatever its role, a segment farther than the strip's width from that
\* end is as its role makes it, and the panel has two relief holes fewer
\* than its unreserved twin for each notch the strip at that end removes.
C27_StripAtOneEnd ==
  PartsMade =>
    \A k \in Reserving : \E end \in {"start", "finish"} :
      /\ \A i \in 0..(RightCount(k) - 1) :
           /\ NearEnd(i, k, end) => RightKind(i, k) = "flat"
           /\ ~NearEnd(i, k, end) => RightKind(i, k) = RoleKind(i, RightEdge(k).edgeParams.role)
      /\ ReliefCount(k) = ReliefCount(Unreserved(k)) - 2 * Cardinality(NotchesNear(k, {end}))

\* C27, amended: the reservation keeps straight the sub-ranges within the
\* strip's width of either end of the edge: every segment that begins
\* inside the strip at the start or ends inside the strip at the finish is
\* flat whatever its role, a segment farther than that from both ends is
\* as its role makes it, and the panel has two relief holes fewer than its
\* unreserved twin for each notch the two strips remove.
C27_StripAtBothEnds ==
  PartsMade =>
    \A k \in Reserving :
      /\ \A i \in 0..(RightCount(k) - 1) :
           /\ (NearEnd(i, k, "start") \/ NearEnd(i, k, "finish")) => RightKind(i, k) = "flat"
           /\ ~(NearEnd(i, k, "start") \/ NearEnd(i, k, "finish"))
                => RightKind(i, k) = RoleKind(i, RightEdge(k).edgeParams.role)
      /\ ReliefCount(k)
           = ReliefCount(Unreserved(k)) - 2 * Cardinality(NotchesNear(k, {"start", "finish"}))

\* C27 happens: panels were made of which one has on its reserving edge a
\* segment that its role would notch, that lies farther than the strip's
\* width from the start and is flat, and one has on its reserving edge a
\* notch between the two strips
C27_Witness ==
  /\ PartsMade
  /\ \E k \in Reserving : \E i \in 0..(RightCount(k) - 1) :
       /\ ~NearEnd(i, k, "start") /\ NearEnd(i, k, "finish")
       /\ RoleKind(i, RightEdge(k).edgeParams.role) = "notch"
       /\ RightKind(i, k) = "flat"
  /\ \E k \in Reserving : \E i \in 0..(RightCount(k) - 1) :
       /\ ~NearEnd(i, k, "start") /\ ~NearEnd(i, k, "finish")
       /\ RightKind(i, k) = "notch"

\* the two numbers differ by no more than three steps of the distance grid
Close(a, b) == a - b <= 3 * HYPOT_GRID /\ b - a <= 3 * HYPOT_GRID

\* the hole has a mirror image among the holes, across the vertical centre
\* line x = w / 2 of the panel, and across the horizontal one y = h / 2
MirroredAcrossX(hole, holes, w) ==
  \E j \in DOMAIN holes : Close(hole.cx + holes[j].cx, w) /\ Close(hole.cy, holes[j].cy)
MirroredAcrossY(hole, holes, h) ==
  \E j \in DOMAIN holes : Close(hole.cy + holes[j].cy, h) /\ Close(hole.cx, holes[j].cx)

\* C28: for mag_count 2 or 4 the centres of the magnet holes of the BASE
\* part are symmetric about the centre (w/2, h/2) of the base panel's
\* bounding box: every hole has its mirror image across x = w/2 among
\* them, and with four holes across y = h/2 as well.
C28_MagnetHolesSymmetric ==
  PartsMade =>
    \A b \in DOMAIN books :
      books[b].mag_count \in {2, 4} =>
        \A i \in DOMAIN MagnetHolesOf(b) :
          /\ MirroredAcrossX(MagnetHolesOf(b)[i], MagnetHolesOf(b), BaseOf(b).w)
          /\ books[b].mag_count = 4 =>
               MirroredAcrossY(MagnetHolesOf(b)[i], MagnetHolesOf(b), BaseOf(b).h)

\* the magnet holes as mkParts lays them out are symmetric about the
\* centre (W_int/2, D_int/2) of the nominal panel
C28_NominalHolesSymmetric ==
  PartsMade =>
    \A b \in DOMAIN books :
      LET nominal == NominalMagnetHoles(books[b], globals)
      IN \A i \in DOMAIN nominal :
           /\ MirroredAcrossX(nominal[i], nominal, deriveInner(books[b]).W_int)
           /\ books[b].mag_count = 4 =>
                MirroredAcrossY(nominal[i], nominal, deriveInner(books[b]).D_int)

\* the box the images of the contour points cover in sheet space, as the
\* verifier maps them
VerifierBox(pp) ==
  LET xs == {ToSheet(pp, PartOf(pp), q).x : q \in Range(PartOf(pp).contourPoints)}
      ys == {ToSheet(pp, PartOf(pp), q).y : q \in Range(PartOf(pp).contourPoints)}
  IN Rect(SetMin(xs), SetMin(ys), SetMax(xs) - SetMin(xs), SetMax(ys) - SetMin(ys))

\* the box the renderer checks: [x, x + h] x [y, y + w] for a turned part
RendererBox(pp) ==
  Rect(pp.x, pp.y,
       IF pp.rotated THEN PartOf(pp).h ELSE PartOf(pp).w,
       IF pp.rotated THEN PartOf(pp).w ELSE PartOf(pp).h)

\* the records with a position that the call holds
PositionedRecords ==
  {placedParts[i] : i \in {j \in DOMAIN placedParts : placedParts[j].sheetIndex # -1}}
  \cup Range(finalPlacedParts)

\* the verifier covers the renderer's box, and whatever it accepts the
\* renderer accepts
VerifierRefinesRenderer ==
  Running =>
    \A pp \in PositionedRecords :
      /\ VerifierBox(pp) = RendererBox(pp)
      /\ isPartInBounds(pp, PartOf(pp), globals) => assertInBounds(pp, PartOf(pp), globals)

\* the renderer does not throw on the placements the call returns
RenderAfterReturn ==
  (pc = "loop" /\ pc' = "done") => ~renderSheetsAsSvgs(result', allParts', globals').thrown

\* C29: renderSheetsAsSvgs does not throw 'Part out of bounds' on the
\* result of generatePlacedParts under the globals it was computed with:
\* every placement isPartInBounds accepts passes assertInBounds, and the
\* verifier's map of the contour, turned or not, covers exactly the box
\* the renderer checks.
C29_RendererAcceptsResult == [] VerifierRefinesRenderer /\ [][RenderAfterReturn]_vars

\* C29 happens: a result has been returned with a turned placement of a
\* part that is not square, and with one that is not turned
C29_Witness ==
  /\ pc = "done"
  /\ \E i \in DOMAIN result : result[i].rotated /\ PartOf(result[i]).w # PartOf(result[i]).h
  /\ \E i \in DOMAIN result : ~result[i].rotated

\* --------------------------------- generatePlacedParts on narrow sheets

\* a case 0.8 in wide with walls of 0.96 in, and a case 2.46 in wide with
\* walls of 1.86 in whose tape strip covers the whole hinge edge
SlimBook ==
  [defaultBook EXCEPT !.W_ext = 1840000, !.D_ext = 5490000, !.h_visible = 1620000,
                      !.tab_w_rule = 2000000]
TallBook ==
  [defaultBook EXCEPT !.W_ext = 5160000, !.D_ext = 5720000, !.h_visible = 3420000,
                      !.tab_w_rule = 4000000, !.symmetric_ends = FALSE,
                      !.tape_reserved_strip = 3000000]

\* the lists of books of a call
RetryBooks ==
  {<<BookWithId(SlimBook, 1), BookWithId(TallBook, 2)>>,
   <<BookWithId(TallBook, 1), BookWithId(SlimBook, 2)>>,
   <<BookWithId(TallBook, 1)>>}

\* sheets 5.29 in wide with no margin and no gap, 3.104 in and 3.214 in
\* high, and one 1.5 in wide that holds no panel of these cases
RetryGlobals ==
  {[defaultGlobals EXCEPT !.sheet_w = 10580000, !.sheet_h = 6208000, !.margin = 0,
                          !.part_gap = 0, !.allow_rotation = FALSE],
   [defaultGlobals EXCEPT !.sheet_w = 10580000, !.sheet_h = 6428000, !.margin = 0,
                          !.part_gap = 0, !.allow_rotation = FALSE],
   [defaultGlobals EXCEPT !.sheet_w = 3000000, !.sheet_h = 6208000, !.margin = 0,
                          !.part_gap = 0, !.allow_rotation = FALSE]}

RetryInit ==
  /\ now = 2
  /\ books \in RetryBooks
  /\ globals \in RetryGlobals
  /\ pc = "idle"
  /\ allParts = <<>> /\ partsToPack = <<>> /\ finalPlacedParts = <<>>
  /\ sheetIndexOffset = 0
  /\ remaining = <<>> /\ placedParts = <<>> /\ sheetIndex = 0
  /\ parts = <<>> /\ free = <<>> /\ placed = <<>> /\ sheetRemaining = <<>>
  /\ result = <<>> /\ failedPart = 0

\* the clicks on Generate, each to its end
RetryNext ==
  \/ handleGenerate
  \/ GenReturn
  \/ PackCall
  \/ PackReturn
  \/ PackSheetCall
  \/ DeferPart
  \/ PlacePart
  \/ PackGiveUp
  \/ PackSheetDone
  \/ VerifyThrow
  \/ VerifyContinue

\* generatePlacedParts for lists of books whose panels the verifier
\* rejects at the edge of the sheet
RetrySpec == RetryInit /\ [][RetryNext]_vars

\* the sheet indices of the returned placements
UsedSheets == {result[i].sheetIndex : i \in DOMAIN result}

\* C30: in every result generatePlacedParts returns the used sheet indices
\* are contiguous from 0: every index from 0 to the largest holds a
\* placement, so the renderer's array of sheets has no slot that was
\* never assigned.
C30_SheetsContiguous ==
  (pc = "done" /\ result # <<>>) =>
    /\ UsedSheets = 0..(SheetsLength(result) - 1)
    /\ \A s \in 1..SheetsLength(result) :
         \E i \in DOMAIN result : result[i].sheetIndex = s - 1

====
